---- MODULE Spec2Model ----
(***************************************************************************)
(* Behavioural model of the experiment harness of CS479-SpeakerEmbeddings: *)
(*   - the human evaluation session   (src/human_evaluation/app.py)        *)
(*   - the experiment runner          (src/run_experiment.py)              *)
(*   - the experiment setup           (src/setup_experiment.py)            *)
(* Each component has its own specification (SpecEval, SpecDiscover,       *)
(* SpecRun, SpecSetup; SpecMain is the script that runs setup and runner)  *)
(* over one shared set of variables; a specification leaves the variables  *)
(* of the other components unchanged.                                      *)
(***************************************************************************)
EXTENDS Integers, Sequences, FiniteSets, TLC

(***************************************************************************)
(* Bounds of the model (not program constants).                            *)
(***************************************************************************)
\* largest <i> of a file zero_shot_<i>.wav that may appear on disk
MaxPairIndex == 0
\* slider values are drawn from 1..ScoreLevels (the sliders allow 1..5)
ScoreLevels == 2
\* number of steps (script runs and file changes) of a behaviour explored
MaxSteps == 6
\* the one-second timestamps of _now_ts range over 0..MaxClock
MaxClock == 1
\* evaluator_number ranges over 1..MaxEvaluator
MaxEvaluator == 2
\* a manifest handed to ExperimentRunner.run has at most MaxManifest entries
MaxManifest == 2
\* subjects (sample ids, speakers) are numbered 1..MaxSubjects
MaxSubjects == 2
\* a speaker of the corpus has MinClips .. MinClips + MaxExtraClips clips
MaxExtraClips == 1
\* every clip of the corpus lasts ClipSeconds seconds
ClipSeconds == 2
\* prepare_data is called at most MaxCalls times in a behaviour
MaxCalls == 2
\* the files of a speaker directory carry the indices 0..MaxFileIndex
MaxFileIndex == 6
\* the script of the evaluation app is run at most MaxRuns times on one tree
MaxRuns == 2
\* run() is called at most MaxRunCalls times on one runner
MaxRunCalls == 2
\* a readable text-pairs file lists PairsInFile pairs
PairsInFile == 3

(***************************************************************************)
(* Program constants.                                                      *)
(***************************************************************************)
\* app.py:242  speakers = ["1055", "124992", "28165"]
speakers == <<"1055", "124992", "28165">>
\* app.py:244  max_per_speaker=5
max_per_speaker == 5
\* app.py:397  for method in ["zero_shot", "fine_tune"]
methods == <<"zero_shot", "fine_tune">>
\* app.py:206  the value of a slider that was never moved
DefaultScore == 3

VARIABLES
    \* ---- human evaluation session ------------------------------------
    zeroShotFiles,     \* disk: {<<spk, i>>} with data/audio/speaker_<spk>/zero_shot_<i>.wav
    idx,               \* st.session_state["idx"]
    responses,         \* st.session_state["responses"], an insertion-ordered dict
    evaluator_number,  \* sidebar widget
    samples,           \* the sample list of the last script run (the rendered page)
    csvFile,           \* per evaluator directory: responses.csv
    jsonFiles,         \* per evaluator directory: timestamp -> written JSON payload
    lastSave,          \* history: item key -> its latest Save click and their number
    edgeClick,         \* history: a Prev or Next click was handled at the end of the list
    steps,             \* number of steps taken (exploration budget)
    randomize,         \* sidebar widget "Randomize order"
    audioMissing,      \* the audio files the first speaker's items lack on disk
    \* ---- experiment runner -------------------------------------------
    manifest,          \* the argument of ExperimentRunner.run
    files,             \* the paths that exist on disk
    pc,                \* position of run() inside the loop body
    pos,               \* 1-based position of `item` in the manifest
    results,           \* self.results
    hasAsr,            \* hasattr(self, 'asr')
    resultsFile,       \* experiment_results.csv
    runNo,             \* history: the number of calls of run() begun on the runner
    runStart,          \* history: len(self.results) when the current run() began
    calls,             \* history: the collaborator calls made for the current entry
    locals,            \* gt_embedding, spanish_text, output_embedding, ... of the iteration
    raisedLog,         \* history: per visited entry, the call that raised ("none" if none)
    \* ---- experiment setup --------------------------------------------
    corpus,            \* dataset.df: per speaker, its clips in the order of the seeded shuffle
    num_speakers,      \* the argument of prepare_data
    selected_speakers, \* the speakers picked at lines 40-44
    setupPc,           \* position of prepare_data
    spkPos,            \* 1-based position in selected_speakers
    durPos,            \* 1-based position in self.reference_durations
    ref_paths,         \* the dict built for the current speaker
    experiment_manifest,
    written,           \* path -> the audio written by sf.write
    reference_durations, \* the argument of ExperimentSetup.__init__
    rngDraws,          \* calls of random.sample since the last random.seed(seed)
    rngStream,         \* history: the results of those calls, by their number
    returned,          \* history: what each finished call of prepare_data returned
    \* ---- discovery and presentation order ------------------------------
    audioTree,         \* data/audio: per configured speaker, what its directory holds
    pairFiles,         \* the state of the two text-pairs files (speaker, global)
    orderLog           \* history: per script run, the widgets, the discovered and
                       \* the presented list

evalVars == <<zeroShotFiles, idx, responses, evaluator_number, samples, csvFile,
              jsonFiles, lastSave, edgeClick, steps, randomize, audioMissing>>

runVars == <<manifest, files, pc, pos, results, hasAsr, locals, raisedLog,
             resultsFile, runNo, runStart, calls>>

setupVars == <<corpus, num_speakers, selected_speakers, setupPc, spkPos, durPos,
               ref_paths, experiment_manifest, written, reference_durations,
               rngDraws, rngStream, returned>>

discoverVars == <<audioTree, pairFiles, orderLog>>

vars == <<evalVars, runVars, setupVars, discoverVars>>

(***************************************************************************)
(* Small helpers.                                                          *)
(***************************************************************************)
Min(a, b) == IF a <= b THEN a ELSE b
Max(a, b) == IF a >= b THEN a ELSE b
Range(s) == {s[i] : i \in 1..Len(s)}

\* ascending sequence of a finite set of integers (Python sorted(indices))
RECURSIVE SortedInts(_)
SortedInts(S) ==
    IF S = {} THEN <<>>
    ELSE LET m == CHOOSE x \in S : \A y \in S : x <= y
         IN  <<m>> \o SortedInts(S \ {m})

\* Python slice seq[:k]
Take(seq, k) == SubSeq(seq, 1, Min(k, Len(seq)))

(***************************************************************************)
(* Insertion-ordered dict (Python dict) as a sequence of [key, value].     *)
(***************************************************************************)
DictKeys(d) == {d[i].key : i \in 1..Len(d)}
DictHas(d, k) == \E i \in 1..Len(d) : d[i].key = k
DictGet(d, k) == d[CHOOSE i \in 1..Len(d) : d[i].key = k].value
\* (variant: the entry is appended even when the key is present)
DictSet_AlwaysAppend(d, k, v) == Append(d, [key |-> k, value |-> v])

\* (variant: the dict is replaced by one that holds the new entry only)
DictSet_Replaces(d, k, v) == <<[key |-> k, value |-> v]>>

\* d[k] = v : replaces the value in place when k is present, else appends
DictSet(d, k, v) ==
    IF DictHas(d, k)
    THEN [i \in 1..Len(d) |-> IF d[i].key = k THEN [key |-> k, value |-> v] ELSE d[i]]
    ELSE Append(d, [key |-> k, value |-> v])

(***************************************************************************)
(* Discovery and ordering of the samples.                                  *)
(***************************************************************************)
Items == {<<speakers[s], i>> : s \in 1..Len(speakers), i \in 0..MaxPairIndex}

\* int(s.speaker_id) for the all-digit speaker ids of the study
IntOfSpeaker(spk) ==
    CASE spk = "1055"   -> 1055
      [] spk = "124992" -> 124992
      [] spk = "28165"  -> 28165

\* the indices i of the files zero_shot_<i>.wav of one speaker directory,
\* sorted and capped
SpeakerIndices(spk, disk) ==
    Take(SortedInts({i \in 0..MaxPairIndex : <<spk, i>> \in disk}), max_per_speaker)

SpeakerSamples(spk, disk) ==
    LET ind == SpeakerIndices(spk, disk)
    IN  [j \in 1..Len(ind) |-> [speaker_id |-> spk, pair_index |-> ind[j]]]

RECURSIVE discover_from(_, _, _)
discover_from(ids, k, disk) ==
    IF k > Len(ids) THEN <<>>
    ELSE SpeakerSamples(ids[k], disk) \o discover_from(ids, k + 1, disk)

discover_samples(ids, disk) == discover_from(ids, 1, disk)

\* key=lambda s: (int(s.speaker_id), int(s.pair_index)), compared as tuples
SortKeyLess(a, b) ==
    \/ IntOfSpeaker(a.speaker_id) < IntOfSpeaker(b.speaker_id)
    \/ /\ IntOfSpeaker(a.speaker_id) = IntOfSpeaker(b.speaker_id)
       /\ a.pair_index < b.pair_index

\* stable insertion of x into an already sorted sequence
RECURSIVE InsertSorted(_, _)
InsertSorted(x, seq) ==
    IF seq = <<>> THEN <<x>>
    ELSE IF SortKeyLess(x, Head(seq)) THEN <<x>> \o seq
         ELSE <<Head(seq)>> \o InsertSorted(x, Tail(seq))

\* (variant: the list is left in the order of discovery)
SortSamples_Unsorted(seq) == seq

\* sorted(samples, key=...)
RECURSIVE SortSamples(_)
SortSamples(seq) ==
    IF seq = <<>> THEN <<>>
    ELSE InsertSorted(seq[Len(seq)], SortSamples(SubSeq(seq, 1, Len(seq) - 1)))

\* the list a script run presents (randomize off)
Present(disk) == SortSamples(discover_samples(speakers, disk))

\* idx = max(0, min(idx, len(samples) - 1))
ClampIdx(i, n) == Max(0, Min(i, n - 1))

\* (variant: the Prev handler is a copy of the Next handler)
PrevTarget_CopyOfNext(i) == i + 1

\* st.session_state["idx"] = max(0, idx - 1)
PrevTarget(i) == Max(0, i - 1)

\* st.session_state["idx"] = min(len(samples) - 1, idx + 1)
NextTarget(i, n) == Min(n - 1, i + 1)

\* item_key = f"spk={sample.speaker_id}|pair={sample.pair_index}"
ItemKey(sample) == <<"spk=", sample.speaker_id, "|pair=", sample.pair_index>>

\* random.Random(seed).shuffle(list(range(1, n + 1))) of CPython for the
\* seeds 1..4 (rows) and n = 0..15 (entry n + 1 of a row)
ShuffleTable ==
  <<
    <<<<>>,
      <<1>>,
      <<2, 1>>,
      <<2, 3, 1>>,
      <<4, 1, 3, 2>>,
      <<3, 4, 5, 1, 2>>,
      <<3, 4, 6, 1, 5, 2>>,
      <<4, 7, 6, 3, 1, 5, 2>>,
      <<4, 7, 2, 6, 8, 1, 5, 3>>,
      <<6, 7, 8, 5, 4, 1, 9, 2, 3>>,
      <<7, 9, 10, 8, 6, 4, 1, 5, 2, 3>>,
      <<7, 9, 11, 8, 6, 4, 1, 5, 2, 10, 3>>,
      <<8, 12, 1, 9, 6, 7, 4, 11, 5, 2, 10, 3>>,
      <<9, 13, 1, 12, 6, 4, 7, 8, 11, 5, 2, 10, 3>>,
      <<14, 11, 1, 13, 7, 6, 4, 9, 8, 12, 5, 2, 10, 3>>,
      <<15, 11, 1, 14, 7, 6, 4, 9, 8, 12, 5, 2, 13, 10, 3>>>>,
    <<<<>>,
      <<1>>,
      <<2, 1>>,
      <<2, 3, 1>>,
      <<2, 3, 4, 1>>,
      <<3, 2, 4, 5, 1>>,
      <<3, 4, 2, 5, 6, 1>>,
      <<3, 4, 2, 5, 6, 1, 7>>,
      <<6, 4, 5, 2, 3, 7, 8, 1>>,
      <<4, 7, 5, 6, 8, 3, 9, 2, 1>>,
      <<6, 10, 4, 5, 7, 8, 3, 9, 2, 1>>,
      <<8, 11, 4, 5, 3, 9, 7, 6, 10, 2, 1>>,
      <<10, 12, 4, 5, 8, 7, 9, 3, 6, 11, 2, 1>>,
      <<10, 4, 7, 13, 11, 8, 9, 5, 3, 6, 12, 2, 1>>,
      <<10, 4, 7, 13, 11, 8, 9, 5, 3, 6, 12, 2, 1, 14>>,
      <<10, 4, 7, 13, 11, 8, 9, 5, 3, 6, 12, 2, 1, 15, 14>>>>,
    <<<<>>,
      <<1>>,
      <<2, 1>>,
      <<2, 3, 1>>,
      <<4, 1, 3, 2>>,
      <<1, 3, 4, 5, 2>>,
      <<1, 3, 4, 6, 5, 2>>,
      <<1, 3, 4, 7, 6, 5, 2>>,
      <<1, 6, 8, 3, 2, 7, 5, 4>>,
      <<2, 6, 7, 1, 9, 5, 8, 3, 4>>,
      <<2, 6, 7, 1, 10, 5, 8, 3, 9, 4>>,
      <<2, 6, 7, 1, 11, 5, 8, 3, 9, 10, 4>>,
      <<2, 8, 11, 1, 7, 12, 5, 6, 3, 9, 10, 4>>,
      <<13, 12, 2, 7, 1, 5, 11, 8, 6, 3, 9, 10, 4>>,
      <<12, 13, 7, 11, 14, 1, 5, 2, 8, 6, 3, 9, 10, 4>>,
      <<13, 11, 7, 12, 15, 1, 5, 2, 8, 14, 6, 3, 9, 10, 4>>>>,
    <<<<>>,
      <<1>>,
      <<2, 1>>,
      <<3, 2, 1>>,
      <<3, 1, 4, 2>>,
      <<4, 5, 1, 3, 2>>,
      <<4, 6, 5, 1, 3, 2>>,
      <<6, 5, 7, 4, 1, 3, 2>>,
      <<2, 7, 6, 5, 8, 1, 3, 4>>,
      <<2, 3, 7, 8, 9, 6, 1, 5, 4>>,
      <<9, 3, 1, 8, 7, 10, 6, 2, 5, 4>>,
      <<3, 6, 8, 10, 1, 9, 11, 7, 2, 5, 4>>,
      <<12, 3, 9, 11, 6, 1, 10, 8, 7, 2, 5, 4>>,
      <<12, 11, 9, 13, 6, 10, 1, 3, 8, 7, 2, 5, 4>>,
      <<10, 13, 6, 9, 14, 11, 1, 12, 3, 8, 7, 2, 5, 4>>,
      <<10, 14, 6, 9, 15, 11, 1, 13, 3, 8, 7, 12, 2, 5, 4>>>>
  >>

\* (variant: the generator is seeded with the number of the run)
ShuffleSeed_RunNumber(ev, run) == run

\* rng = random.Random(int(evaluator_number))
ShuffleSeed(ev, run) == ev

\* rng.shuffle(samples)
Shuffled(list, seed) ==
    [i \in 1..Len(list) |-> list[ShuffleTable[seed][Len(list) + 1][i]]]

\* lines 244-258: the list the script presents
presented_order(list, ev, rnd, run) ==
    IF rnd THEN Shuffled(list, ShuffleSeed(ev, run)) ELSE SortSamples(list)

(***************************************************************************)
(* One run of the script main(), up to the widgets: discovery, ordering,   *)
(* the early return on an empty list, and the clamp of the stored index.   *)
(***************************************************************************)
\* the list a run presents with the sidebar widgets at (ev, rnd)
ShownFor(ev, rnd) ==
    presented_order(discover_samples(speakers, zeroShotFiles), ev, rnd, steps + 1)
\* the list this run presents
Shown == ShownFor(evaluator_number, randomize)
\* idx after lines 271-273 of this run
ShownIdx == ClampIdx(idx, Len(Shown))
\* (variant: the sample is taken from the sorted list whatever the order shown)
ShownSample_SortedList == Present(zeroShotFiles)[ShownIdx + 1]

\* sample = samples[idx]
ShownSample == Shown[ShownIdx + 1]

\* a run in which no button is pressed: returns early on an empty list
\* (the session state is not touched), else stores the clamped index
PlainRunOf(list) ==
    /\ samples' = list
    /\ idx' = IF list = <<>> THEN idx ELSE ClampIdx(idx, Len(list))

PlainRun == PlainRunOf(Shown)

\* the response dict written by Save
SaveRecord(sample, z, ft) ==
    [speaker_id |-> sample.speaker_id,
     pair_index |-> sample.pair_index,
     ratings    |-> [zero_shot |-> z, fine_tune |-> ft]]

(***************************************************************************)
(* responses.csv and the JSON documents.                                   *)
(***************************************************************************)
HeaderLine == [kind |-> "header"]
NoFile == [exists |-> FALSE, lines |-> <<>>]

\* the two flattened rows of one (key, response) pair
FlatRowsOf(ev, entry) ==
    [m \in 1..Len(methods) |->
        [kind             |-> "row",
         evaluator_number |-> ev,
         item_key         |-> entry.key,
         speaker_id       |-> entry.value.speaker_id,
         pair_index       |-> entry.value.pair_index,
         method           |-> methods[m],
         score            |-> IF methods[m] = "zero_shot"
                              THEN entry.value.ratings.zero_shot
                              ELSE entry.value.ratings.fine_tune]]

\* flat_rows: responses.items() in insertion order, both methods per item
RECURSIVE FlatRowsFrom(_, _, _)
FlatRowsFrom(ev, resp, k) ==
    IF k > Len(resp) THEN <<>>
    ELSE FlatRowsOf(ev, resp[k]) \o FlatRowsFrom(ev, resp, k + 1)

FlatRows(ev, resp) == FlatRowsFrom(ev, resp, 1)

\* (variant: the header is written by every export)
append_csv_AlwaysHeader(file, rows) ==
    IF rows = <<>> THEN file
    ELSE [exists |-> TRUE, lines |-> file.lines \o <<HeaderLine>> \o rows]

\* (variant: rows that are already in the file are not written again)
append_csv_Dedup(file, rows) ==
    IF rows = <<>> THEN file
    ELSE [exists |-> TRUE,
          lines  |-> file.lines
                     \o (IF file.exists THEN <<>> ELSE <<HeaderLine>>)
                     \o SelectSeq(rows, LAMBDA r : r \notin Range(file.lines))]

\* (variant: an export without rows still creates the file with its header)
append_csv_HeaderOnEmpty(file, rows) ==
    [exists |-> TRUE,
     lines  |-> file.lines
                \o (IF file.exists THEN <<>> ELSE <<HeaderLine>>)
                \o rows]

\* _append_csv(path, rows)
append_csv(file, rows) ==
    IF rows = <<>> THEN file
    ELSE [exists |-> TRUE,
          lines  |-> file.lines
                     \o (IF file.exists THEN <<>> ELSE <<HeaderLine>>)
                     \o rows]

\* the JSON payload of an export
ExportPayload(ev, shown, resp, ts) ==
    [evaluator_number   |-> ev,
     exported_at        |-> ts,
     n_items_total      |-> Len(shown),
     n_items_completed  |-> Len(resp),
     samples_discovered |-> shown,
     responses          |-> resp]

\* _write_json(out_dir / f"human_eval_{_now_ts()}.json", payload): mode "w"
write_json(docs, ev, ts, payload) == (<<ev, ts>> :> payload) @@ docs

(***************************************************************************)
(* Human evaluation session: initial state and handlers.                   *)
(***************************************************************************)
\* the audio files of an item whose absence the page reports
AudioKinds == {"reference", "zero_shot", "fine_tune"}

\* the files that can be absent for an item that was discovered: the
\* speaker reference and the fine-tuned output
OptionalAudio == {"reference", "fine_tune"}

\* what exists() answers for the audio of a sample while its page is built
MissingOn(sample) == IF sample.speaker_id = speakers[1] THEN audioMissing ELSE {}

\* (variant: the script stops at a missing reference, before the buttons)
Page_StopsOnMissingReference(list, i, missing) ==
    [reference |-> IF "reference" \in missing THEN "error" ELSE "audio",
     zero_shot |-> "none",
     fine_tune |-> "none",
     prev      |-> [disabled |-> ("reference" \in missing \/ i = 0)],
     save      |-> [disabled |-> ("reference" \in missing)],
     next      |-> [disabled |-> ("reference" \in missing \/ i >= Len(list) - 1)],
     export    |-> [disabled |-> ("reference" \in missing)]]

\* the page main() builds for samples[idx] (lines 281-369): st.error or
\* st.warning in place of a player whose file is missing, then the buttons
Page(list, i, missing) ==
    [reference |-> IF "reference" \in missing THEN "error" ELSE "audio",
     zero_shot |-> IF "zero_shot" \in missing THEN "warning" ELSE "audio",
     fine_tune |-> IF "fine_tune" \in missing THEN "warning" ELSE "audio",
     prev      |-> [disabled |-> (i = 0)],
     save      |-> [disabled |-> FALSE],
     next      |-> [disabled |-> (i >= Len(list) - 1)],
     export    |-> [disabled |-> FALSE]]

\* the button is on the rendered page and can be pressed
Clickable(button) ==
    /\ samples # <<>>
    /\ ~Page(samples, idx, MissingOn(samples[idx + 1]))[button].disabled

\* a session just loaded, the first speaker's items lacking the files `missing`
InitEvalWith(missing) ==
    /\ zeroShotFiles = Items
    /\ idx = 0
    /\ responses = <<>>
    /\ evaluator_number = 1
    /\ samples = Present(Items)
    /\ csvFile = [e \in 1..MaxEvaluator |-> NoFile]
    /\ jsonFiles = <<>>
    /\ lastSave = <<>>
    /\ edgeClick = FALSE
    /\ steps = 0
    /\ randomize = FALSE
    /\ audioMissing = missing

InitEval == InitEvalWith({})

InitSession == \E missing \in SUBSET OptionalAudio : InitEvalWith(missing)

\* every step of the evaluation session spends one unit of the budget
Step ==
    /\ steps < MaxSteps
    /\ steps' = steps + 1
    /\ UNCHANGED <<runVars, setupVars, discoverVars>>
durableVars == <<csvFile, jsonFiles>>

\* "<- Prev": the click is possible when the rendered button is enabled;
\* the handler stores max(0, idx - 1) and st.rerun() runs the script again
PrevClick ==
    /\ Step
    /\ UNCHANGED <<randomize, audioMissing>>
    /\ Clickable("prev")
    /\ samples' = Shown
    /\ idx' = IF Shown = <<>> THEN idx
              ELSE ClampIdx(PrevTarget(ShownIdx), Len(Shown))
    /\ edgeClick' = (edgeClick \/ (Shown # <<>> /\ ShownIdx = 0))
    /\ UNCHANGED <<zeroShotFiles, responses, evaluator_number, csvFile, jsonFiles,
                   lastSave>>

\* "Next ->": stores min(len(samples) - 1, idx + 1), then st.rerun()
NextClick ==
    /\ Step
    /\ UNCHANGED <<randomize, audioMissing>>
    /\ Clickable("next")
    /\ samples' = Shown
    /\ idx' = IF Shown = <<>> THEN idx
              ELSE ClampIdx(NextTarget(ShownIdx, Len(Shown)), Len(Shown))
    /\ edgeClick' = (edgeClick \/ (Shown # <<>> /\ ShownIdx = Len(Shown) - 1))
    /\ UNCHANGED <<zeroShotFiles, responses, evaluator_number, csvFile, jsonFiles,
                   lastSave>>

\* history of the Save clicks: the item on the page and the widget values
Logged(log, sample, z, ft) ==
    LET k == ItemKey(sample)
    IN  (k :> [speaker_id |-> sample.speaker_id,
               pair_index |-> sample.pair_index,
               zero_shot  |-> z,
               fine_tune  |-> ft,
               times      |-> IF k \in DOMAIN log THEN log[k].times + 1 ELSE 1])
        @@ log

\* "Save": responses[item_key] = {...} for the item of this run
SaveRun(z, ft) ==
    /\ PlainRun
    /\ IF Shown = <<>>
       THEN /\ UNCHANGED <<responses, lastSave>>
       ELSE /\ responses' = DictSet(responses, ItemKey(ShownSample),
                                    SaveRecord(ShownSample, z, ft))
            /\ lastSave' = Logged(lastSave, ShownSample, z, ft)

\* (variant: Save also flushes the rows of the session to responses.csv)
SaveClick_AutoSaves ==
    /\ Step
    /\ UNCHANGED <<randomize, audioMissing>>
    /\ Clickable("save")
    /\ \E z \in 1..ScoreLevels, ft \in {DefaultScore} : SaveRun(z, ft)
    /\ csvFile' = [csvFile EXCEPT ![evaluator_number] =
                       append_csv(@, FlatRows(evaluator_number, responses'))]
    /\ UNCHANGED <<zeroShotFiles, evaluator_number, jsonFiles, edgeClick>>

SaveClick ==
    /\ Step
    /\ UNCHANGED <<randomize, audioMissing>>
    /\ Clickable("save")
    /\ \E z \in 1..ScoreLevels, ft \in {DefaultScore} : SaveRun(z, ft)
    /\ UNCHANGED <<zeroShotFiles, evaluator_number, csvFile, jsonFiles,
                   edgeClick>>

\* _now_ts() at an export: the clock never runs backwards, so the timestamp is
\* not earlier than that of any document written before
LaterTimestamps ==
    {t \in 0..MaxClock : \A f \in DOMAIN jsonFiles : f[2] <= t}

\* the files written by an export
ExportRun ==
    /\ PlainRun
    /\ IF Shown = <<>>
       THEN /\ UNCHANGED durableVars
       ELSE \E ts \in LaterTimestamps :
            /\ jsonFiles' = write_json(jsonFiles, evaluator_number, ts,
                               ExportPayload(evaluator_number, Shown, responses, ts))
            /\ csvFile' = [csvFile EXCEPT ![evaluator_number] =
                               append_csv(@, FlatRows(evaluator_number, responses))]

\* (variant: the responses are cleared once they are exported)
ExportClick_Clears ==
    /\ Step
    /\ UNCHANGED <<randomize, audioMissing>>
    /\ Clickable("export")
    /\ ExportRun
    /\ responses' = <<>>
    /\ lastSave' = <<>>
    /\ UNCHANGED <<zeroShotFiles, evaluator_number, edgeClick>>

\* "Export results to disk": one JSON document, rows appended to the CSV
ExportClick ==
    /\ Step
    /\ UNCHANGED <<randomize, audioMissing>>
    /\ Clickable("export")
    /\ ExportRun
    /\ UNCHANGED <<zeroShotFiles, responses, evaluator_number, lastSave,
                   edgeClick>>

\* the evaluator_number widget is changed: a run without a button press
SetEvaluator ==
    /\ Step
    /\ UNCHANGED <<randomize, audioMissing>>
    /\ \E e \in 1..MaxEvaluator :
        /\ e # evaluator_number
        /\ evaluator_number' = e
        /\ PlainRunOf(ShownFor(e, randomize))
    /\ UNCHANGED <<zeroShotFiles, responses, csvFile, jsonFiles, lastSave,
                   edgeClick>>

\* any other widget interaction (a slider, a text box): a run without a button
Rerun ==
    /\ Step
    /\ UNCHANGED <<randomize, audioMissing>>
    /\ PlainRun
    /\ UNCHANGED <<zeroShotFiles, responses, evaluator_number, csvFile, jsonFiles,
                   lastSave, edgeClick>>

\* a fresh session (page reload, server restart): st.session_state is empty,
\* the widgets are back at their defaults, the files on disk stay
NewSession ==
    /\ Step
    /\ randomize' = FALSE
    /\ UNCHANGED audioMissing
    /\ samples' = ShownFor(1, FALSE)
    /\ idx' = 0
    /\ responses' = <<>>
    /\ evaluator_number' = 1
    /\ lastSave' = <<>>
    /\ edgeClick' = FALSE
    /\ UNCHANGED <<zeroShotFiles, csvFile, jsonFiles>>

\* environment: a generated audio file appears or disappears
DiskChange ==
    /\ Step
    /\ UNCHANGED <<randomize, audioMissing>>
    /\ \E f \in Items :
        zeroShotFiles' = IF f \in zeroShotFiles THEN zeroShotFiles \ {f}
                         ELSE zeroShotFiles \cup {f}
    /\ UNCHANGED <<idx, responses, evaluator_number, samples, csvFile, jsonFiles,
                   lastSave, edgeClick>>

\* the checkbox "Randomize order" is toggled: a run without a button press
ToggleRandomize ==
    /\ Step
    /\ randomize' = ~randomize
    /\ PlainRunOf(ShownFor(evaluator_number, ~randomize))
    /\ UNCHANGED <<zeroShotFiles, responses, evaluator_number, csvFile, jsonFiles,
                   lastSave, edgeClick, audioMissing>>

NextEval ==
    \/ PrevClick
    \/ NextClick
    \/ SaveClick
    \/ ExportClick
    \/ SetEvaluator
    \/ Rerun
    \/ NewSession
    \/ DiskChange

\* a session on a fixed set of files in which the order of presentation is
\* changed by the sidebar widgets
NextSession ==
    \/ PrevClick
    \/ NextClick
    \/ SaveClick
    \/ ExportClick
    \/ SetEvaluator
    \/ ToggleRandomize

(***************************************************************************)
(* Claims about the human evaluation session.                              *)
(***************************************************************************)

\* the stored index is an index of the presented list
IndexInRange == samples # <<>> => idx \in 0..(Len(samples) - 1)

\* a Prev click handled at index i stores i - 1, or i when i = 0; a Next
\* click handled at index i stores i + 1, or i when i is the last index
NavByOne ==
    /\ (PrevClick /\ Shown # <<>>) =>
           idx' = IF ShownIdx = 0 THEN ShownIdx ELSE ShownIdx - 1
    /\ (NextClick /\ Shown # <<>>) =>
           idx' = IF ShownIdx = Len(Shown) - 1 THEN ShownIdx ELSE ShownIdx + 1

\* C1: with n >= 1 presented samples the index stays in [0, n-1] after every
\* handler (also when the stored index was out of range at the start of the
\* run); Prev at 0 and Next at n-1 leave it unchanged; every other Prev/Next
\* changes it by exactly 1.
C1_IndexClamped == []IndexInRange /\ [][NavByOne]_vars

\* C1 witness: a Prev or Next click was handled at the end of a list of at
\* least two samples, and the index is at that end.
C1_Witness ==
    /\ edgeClick
    /\ Len(samples) >= 2
    /\ idx \in {0, Len(samples) - 1}

\* C2: the responses map holds exactly one record per item saved in the
\* session, and it is the record of the latest Save of that item.
C2_SaveIsUpsert ==
    /\ DictKeys(responses) = DOMAIN lastSave
    /\ Len(responses) = Cardinality(DOMAIN lastSave)
    /\ \A k \in DOMAIN lastSave :
          /\ DictGet(responses, k).speaker_id = lastSave[k].speaker_id
          /\ DictGet(responses, k).pair_index = lastSave[k].pair_index
          /\ DictGet(responses, k).ratings.zero_shot = lastSave[k].zero_shot
          /\ DictGet(responses, k).ratings.fine_tune = lastSave[k].fine_tune

\* C2 witness: two items are rated, one of them was saved more than once.
C2_Witness ==
    /\ Len(responses) >= 2
    /\ \E k \in DOMAIN lastSave : lastSave[k].times >= 2

\* C3: a Save changes only the response stored under the key of the current
\* item: it does not move the index, and the records of all other keys stay.
C3_SaveFrame ==
    [][(SaveClick /\ Shown # <<>>) =>
          /\ idx' = ShownIdx
          /\ samples' = samples => idx' = idx
          /\ \A k \in (DictKeys(responses) \cup DictKeys(responses'))
                      \ {ItemKey(ShownSample)} :
                /\ DictHas(responses, k) /\ DictHas(responses', k)
                /\ DictGet(responses', k) = DictGet(responses, k)]_vars

\* C3 witness: two items are rated and the page is not on the first item.
C3_Witness ==
    /\ Len(responses) >= 2
    /\ idx > 0
    /\ DictHas(responses, ItemKey(samples[idx + 1]))

\* C4: an Export leaves the index and the responses map as they are.
C4_ExportKeepsSession ==
    [][ExportClick =>
          /\ responses' = responses
          /\ Shown # <<>> => idx' = ShownIdx
          /\ samples' = samples => idx' = idx]_vars

\* C4 witness: two documents were exported and the session, not on its first
\* item, holds a rating that is in neither of them.
C4_Witness ==
    /\ Cardinality(DOMAIN jsonFiles) >= 2
    /\ idx > 0
    /\ responses # <<>>
    /\ \A f \in DOMAIN jsonFiles : jsonFiles[f].responses # responses

\* a file that exists starts with the header and has no other header
HeaderOnceFirst(file) ==
    IF file.exists
    THEN /\ Len(file.lines) >= 1
         /\ file.lines[1] = HeaderLine
         /\ \A i \in 2..Len(file.lines) : file.lines[i].kind = "row"
    ELSE file.lines = <<>>

\* an existing file only grows, and only by data rows
OnlyRowsAppended(old, new) ==
    old.exists =>
       /\ new.exists
       /\ Len(new.lines) >= Len(old.lines)
       /\ SubSeq(new.lines, 1, Len(old.lines)) = old.lines
       /\ \A i \in (Len(old.lines) + 1)..Len(new.lines) : new.lines[i].kind = "row"

\* C5: in every evaluator directory responses.csv has exactly one header row,
\* the first; an export that finds the file only appends data rows.
C5_HeaderOnce ==
    /\ [](\A e \in 1..MaxEvaluator : HeaderOnceFirst(csvFile[e]))
    /\ [][\A e \in 1..MaxEvaluator : OnlyRowsAppended(csvFile[e], csvFile'[e])]_vars

\* C5 witness: one directory received two exports of different ratings (two
\* documents, five lines in the CSV).
C5_Witness ==
    \E e \in 1..MaxEvaluator :
        /\ Len(csvFile[e].lines) >= 5
        /\ \E f, g \in DOMAIN jsonFiles :
              /\ f[1] = e /\ g[1] = e
              /\ jsonFiles[f].responses # <<>>
              /\ jsonFiles[g].responses # <<>>
              /\ jsonFiles[f].responses # jsonFiles[g].responses

\* the lines an export added to a file
AddedRows(old, new) ==
    LET from == IF old.exists THEN Len(old.lines) + 1 ELSE 2
    IN  SubSeq(new.lines, from, Len(new.lines))

\* C6: an Export appends exactly one row per (saved item, method) pair, that
\* is 2 x |responses| rows, and keeps every earlier line.
C6_ExportAppendsRows ==
    [][(ExportClick /\ Shown # <<>>) =>
          LET old == csvFile[evaluator_number]
              new == csvFile'[evaluator_number]
              add == AddedRows(old, new)
          IN  /\ SubSeq(new.lines, 1, Len(old.lines)) = old.lines
              /\ Len(add) = 2 * Len(responses)
              /\ \A i \in 1..Len(responses) : \A m \in Range(methods) :
                    Cardinality({j \in 1..Len(add) :
                                    /\ add[j].item_key = responses[i].key
                                    /\ add[j].method = m}) = 1
              /\ \A e \in 1..MaxEvaluator :
                    e # evaluator_number => csvFile'[e] = csvFile[e]]_vars

\* C6 witness: a CSV holds the same row twice (the session was exported
\* twice without a Save in between).
C6_Witness ==
    \E e \in 1..MaxEvaluator :
        \E i, j \in 1..Len(csvFile[e].lines) :
            /\ i < j
            /\ csvFile[e].lines[i] = csvFile[e].lines[j]

\* C7: Prev, Next and Save write no file; the files change only in an Export,
\* and the document an Export writes holds the responses map of that moment.
C7_NoAutoSave ==
    [][/\ (PrevClick \/ NextClick \/ SaveClick) => UNCHANGED durableVars
       /\ ~UNCHANGED durableVars => ExportClick
       /\ (ExportClick /\ Shown # <<>>) =>
             \E f \in DOMAIN jsonFiles' :
                /\ f[1] = evaluator_number
                /\ jsonFiles'[f].responses = responses
                /\ jsonFiles'[f].n_items_completed = Len(responses)
                /\ \A g \in DOMAIN jsonFiles :
                      g # f => g \in DOMAIN jsonFiles' /\ jsonFiles'[g] = jsonFiles[g]]_vars

\* C7 witness: ratings of two items are held in the session after navigation
\* and nothing was written.
C7_Witness ==
    /\ Len(responses) >= 2
    /\ idx > 0
    /\ jsonFiles = <<>>
    /\ \A e \in 1..MaxEvaluator : ~csvFile[e].exists

\* the number of header lines of a file
HeaderCount(file) == Cardinality({k \in 1..Len(file.lines) : file.lines[k] = HeaderLine})

\* a step that writes a JSON document while no response is stored
EmptyExportStep == responses = <<>> /\ jsonFiles' # jsonFiles

\* C30: an export with no saved response writes the JSON document, with
\* n_items_completed = 0, and neither creates nor changes responses.csv; so
\* a file that exists starts with its header, has no other header line and
\* holds at least one row pair.
C30_EmptyExportLeavesCsv ==
    /\ [][EmptyExportStep =>
            /\ csvFile' = csvFile
            /\ \E f \in DOMAIN jsonFiles' :
                  /\ f[1] = evaluator_number
                  /\ jsonFiles'[f].n_items_completed = 0
                  /\ jsonFiles'[f].responses = <<>>]_vars
    /\ [](\A e \in 1..MaxEvaluator :
             csvFile[e].exists =>
                 /\ csvFile[e].lines[1] = HeaderLine
                 /\ HeaderCount(csvFile[e]) = 1
                 /\ Len(csvFile[e].lines) >= 1 + Len(methods))

\* C30 witness: an evaluator's directory holds a JSON document of an export
\* without responses and a responses.csv written by a later export.
C30_Witness ==
    \E f \in DOMAIN jsonFiles :
        /\ jsonFiles[f].n_items_completed = 0
        /\ csvFile[f[1]].exists
        /\ \E g \in DOMAIN jsonFiles :
              /\ g[1] = f[1]
              /\ g[2] > f[2]
              /\ jsonFiles[g].n_items_completed >= 1

\* a step that handles a Save click
SaveStep == lastSave' # lastSave

\* C28: missing audio on the current item never blocks the session: for
\* every combination of missing reference, zero-shot and fine-tune files
\* Prev is disabled exactly at index 0, Next exactly at the last index, Save
\* and Export never; the buttons of the rendered page can be pressed
\* accordingly, and a Save pressed on an item with missing audio stores its
\* record.
C28_MissingAudioNeverBlocks ==
    /\ [](samples # <<>> =>
            /\ \A missing \in SUBSET AudioKinds :
                  LET page == Page(samples, idx, missing)
                  IN  /\ page.prev.disabled <=> idx = 0
                      /\ page.next.disabled <=> idx >= Len(samples) - 1
                      /\ ~page.save.disabled
                      /\ ~page.export.disabled
            /\ Clickable("save") /\ Clickable("export")
            /\ Clickable("prev") <=> idx # 0
            /\ Clickable("next") <=> idx < Len(samples) - 1)
    /\ [][(SaveStep /\ MissingOn(samples[idx + 1]) # {}) =>
            DictHas(responses', ItemKey(samples[idx + 1]))]_vars

\* C28 witness: the first speaker's items lack the reference and the
\* fine-tuned audio; the rating saved for such an item is in responses.csv,
\* and the session has moved on to a later item.
C28_Witness ==
    /\ audioMissing = {"reference", "fine_tune"}
    /\ idx >= 1
    /\ \E k \in DictKeys(responses) : DictGet(responses, k).speaker_id = speakers[1]
    /\ \E e \in 1..MaxEvaluator :
          \E j \in 1..Len(csvFile[e].lines) :
              /\ csvFile[e].lines[j] # HeaderLine
              /\ csvFile[e].lines[j].speaker_id = speakers[1]

\* C29: every key of the responses map is the item key of the speaker and
\* pair index its record carries, and a Save stores its record under the key
\* of the item the rendered page showed when the button was pressed, leaving
\* the records of all other keys alone, whatever order the list is shown in.
C29_SavedUnderShownItem ==
    /\ [](\A k \in 1..Len(responses) :
             responses[k].key = ItemKey(responses[k].value))
    /\ [][SaveStep =>
            LET shown == samples[idx + 1]
                key   == ItemKey(shown)
            IN  /\ DictKeys(responses') = DictKeys(responses) \cup {key}
                /\ DictGet(responses', key).speaker_id = shown.speaker_id
                /\ DictGet(responses', key).pair_index = shown.pair_index
                /\ lastSave'[key].times =
                       (IF key \in DOMAIN lastSave THEN lastSave[key].times ELSE 0) + 1
                /\ \A other \in DictKeys(responses) \ {key} :
                       DictGet(responses', other) = DictGet(responses, other)]_vars

\* C29 witness: the list is shown shuffled, the index denotes another item
\* than it does in the sorted list, and both items have been saved.
C29_Witness ==
    /\ randomize
    /\ samples # <<>>
    /\ samples[idx + 1] # Present(zeroShotFiles)[idx + 1]
    /\ ItemKey(samples[idx + 1]) \in DOMAIN lastSave
    /\ ItemKey(Present(zeroShotFiles)[idx + 1]) \in DOMAIN lastSave

(***************************************************************************)
(* Discovery on a directory tree and the order of presentation: the part   *)
(* of main() before the session state is read (lines 242-258).  A file     *)
(* name <stem>_<digits>.wav is [stem, zeros, index]: the digits are zeros   *)
(* leading zeros followed by the decimal form of index.                    *)
(***************************************************************************)
FileName(stem, zeros, index) == [stem |-> stem, zeros |-> zeros, index |-> index]

\* f"zero_shot_{i}.wav" and f"fine_tuned_{i}.wav": no leading zeros
ZeroShotName(i) == FileName("zero_shot", 0, i)
FineTunedName(i) == FileName("fine_tuned", 0, i)

DirEntry(name, is_file) == [name |-> name, is_file |-> is_file]

\* what a speaker directory may look like
DirKinds == {"missing", "empty", "pairs", "no_fine", "many", "odd"}

\* speaker_dir.exists()
DirExists(kind) == kind # "missing"

\* speaker_dir.iterdir(), as a set: the order of iteration is not specified
Listing(kind) ==
    CASE kind = "pairs" ->
            {DirEntry(ZeroShotName(i), TRUE) : i \in 0..2}
                \cup {DirEntry(FineTunedName(i), TRUE) : i \in 0..2}
      [] kind = "no_fine" ->
            {DirEntry(ZeroShotName(i), TRUE) : i \in 0..1}
      [] kind = "many" ->
            {DirEntry(ZeroShotName(i), TRUE) : i \in 0..MaxFileIndex}
                \cup {DirEntry(FineTunedName(i), TRUE) :
                         i \in {j \in 0..MaxFileIndex : j % 2 = 0}}
      [] kind = "odd" ->
            {DirEntry(ZeroShotName(3), TRUE),
             DirEntry(FileName("zero_shot", 1, 1), TRUE),
             DirEntry(ZeroShotName(2), FALSE),
             DirEntry(FileName("notes", 0, 0), TRUE),
             DirEntry(FineTunedName(3), TRUE),
             DirEntry(FineTunedName(MaxFileIndex), TRUE)}
      [] OTHER -> {}

\* p.is_file() and pat.match(p.name), pat = ^zero_shot_(\d+)\.wav$
Matches(entry) == entry.is_file /\ entry.name.stem = "zero_shot"

\* int(m.group(1)): the value of the digits, leading zeros dropped
IndexOf(entry) == entry.name.index

\* sorted(indices) for the indices of a set of matching entries
RECURSIVE SortedIndices(_)
SortedIndices(entries) ==
    IF entries = {} THEN <<>>
    ELSE LET e == CHOOSE x \in entries : \A y \in entries : IndexOf(x) <= IndexOf(y)
         IN  <<IndexOf(e)>> \o SortedIndices(entries \ {e})

\* (variant: the cap max_per_speaker is not applied)
dir_indices_Uncapped(kind) == SortedIndices({e \in Listing(kind) : Matches(e)})

\* indices = sorted(indices)[:max_per_speaker]
dir_indices(kind) ==
    Take(SortedIndices({e \in Listing(kind) : Matches(e)}), max_per_speaker)

\* Path.exists() of a name in a speaker directory
NameExists(kind, name) == \E e \in Listing(kind) : e.name = name

\* an absent (None) path
NoPath == <<>>

\* a text: its leading and trailing blanks and its words
Text(blanks, words) == [blanks |-> blanks, words |-> words]

\* the empty string ""
EmptyText == Text(0, <<>>)

\* str.strip()
Strip(t) == [t EXCEPT !.blanks = 0]

\* the states of a text-pairs file: absent, a list of {"en", "es"} objects,
\* a list of [en, es] lists one of which is too short, not readable as JSON,
\* or JSON that is no list
PairFileKinds == {"absent", "dicts", "lists", "corrupt", "object"}

\* candidates[0] of a speaker directory: only the first speaker has a file
\* sentence_pairs.json of its own
SpeakerPairFile(spk, pf) == IF spk = speakers[1] THEN pf.speaker ELSE "absent"

\* the text the file `origin` holds for language lang at position i; texts
\* at odd positions are padded with blanks
FileText(origin, lang, i) == Text(i % 2, <<lang, origin, i>>)

\* _read_json(pairs_path) of a readable list: the items in file order
Payload(kind, origin) ==
    [j \in 1..PairsInFile |->
        IF kind = "dicts"
        THEN [shape |-> "dict",
              en    |-> FileText(origin, "en", j - 1),
              es    |-> FileText(origin, "es", j - 1)]
        ELSE IF j = 2
        THEN [shape |-> "short_list",
              en    |-> FileText(origin, "en", j - 1),
              es    |-> EmptyText]
        ELSE [shape |-> "list",
              en    |-> FileText(origin, "en", j - 1),
              es    |-> FileText(origin, "es", j - 1)]]

\* an empty dict
NoPairs == [i \in {} |-> EmptyText]

\* the loop of lines 68-76: item i of the list gives out[i] when it is a
\* dict or a list of two or more; other items are passed over
PairsOfPayload(payload) ==
    [i \in {j - 1 : j \in {k \in 1..Len(payload) :
                              payload[k].shape \in {"dict", "list"}}} |->
        [en |-> Strip(payload[i + 1].en), es |-> Strip(payload[i + 1].es)]]

\* (variant: a candidate that cannot be read is passed over for the next)
load_sentence_pairs_FirstReadable(own, global) ==
    IF own \in {"dicts", "lists"} THEN PairsOfPayload(Payload(own, "speaker"))
    ELSE IF global \in {"dicts", "lists"} THEN PairsOfPayload(Payload(global, "global"))
    ELSE NoPairs

\* _load_sentence_pairs(speaker_dir): the first candidate that exists is the
\* one read; a file that cannot be read, or holds no list, gives {}
load_sentence_pairs(own, global) ==
    LET pairs_path == IF own # "absent" THEN "speaker"
                      ELSE IF global # "absent" THEN "global"
                      ELSE "None"
        kind == IF pairs_path = "speaker" THEN own ELSE global
    IN  IF pairs_path = "None" THEN NoPairs
        ELSE IF kind = "corrupt" THEN NoPairs
        ELSE IF kind = "object" THEN NoPairs
        ELSE PairsOfPayload(Payload(kind, pairs_path))

\* pair_text.get(i, {}).get(lang, "").strip()
TextOf(pair_text, i, lang) ==
    IF i \in DOMAIN pair_text THEN Strip(pair_text[i][lang]) ELSE EmptyText

\* the Sample built for index i of speaker spk (lines 125-143)
SampleOf(spk, kind, i, pair_text) ==
    [speaker_id          |-> spk,
     pair_index          |-> i,
     source_text_en      |-> TextOf(pair_text, i, "en"),
     target_text_es      |-> TextOf(pair_text, i, "es"),
     zero_shot_audio_wav |-> <<spk, ZeroShotName(i)>>,
     fine_tune_audio_wav |-> IF NameExists(kind, FineTunedName(i))
                             THEN <<spk, FineTunedName(i)>>
                             ELSE NoPath]

dir_samples(spk, kind, pf) ==
    LET pair_text == load_sentence_pairs(SpeakerPairFile(spk, pf), pf.global)
        ind       == dir_indices(kind)
    IN  [j \in 1..Len(ind) |-> SampleOf(spk, kind, ind[j], pair_text)]

\* for spk in speaker_ids: ... (a speaker without directory is passed over)
RECURSIVE discover_tree_from(_, _, _, _)
discover_tree_from(ids, k, tree, pf) ==
    IF k > Len(ids) THEN <<>>
    ELSE (IF DirExists(tree[k]) THEN dir_samples(ids[k], tree[k], pf) ELSE <<>>)
         \o discover_tree_from(ids, k + 1, tree, pf)

\* discover_samples(speaker_ids=speakers, max_per_speaker=5) on a tree
discover_tree(ids, tree, pf) == discover_tree_from(ids, 1, tree, pf)

InitDiscover ==
    /\ audioTree \in [1..Len(speakers) -> DirKinds]
    /\ pairFiles \in [speaker : PairFileKinds, global : PairFileKinds]
    /\ orderLog = <<>>

\* one run of the script with the sidebar widgets at (ev, rnd): a first run
\* of a session or a rerun
ScriptRun ==
    /\ UNCHANGED <<evalVars, runVars, setupVars>>
    /\ Len(orderLog) < MaxRuns
    /\ \E ev \in 1..MaxEvaluator, rnd \in BOOLEAN :
        LET found == discover_tree(speakers, audioTree, pairFiles)
        IN  orderLog' = Append(orderLog,
                [evaluator_number |-> ev,
                 randomize        |-> rnd,
                 discovered       |-> found,
                 presented        |-> presented_order(found, ev, rnd,
                                                      Len(orderLog) + 1)])
    /\ UNCHANGED <<audioTree, pairFiles>>

NextDiscover ==
    \/ ScriptRun

(***************************************************************************)
(* Claims about discovery and the order of presentation.                   *)
(***************************************************************************)
\* the number of positions of seq that hold x
CountIn(x, seq) == Cardinality({i \in 1..Len(seq) : seq[i] = x})

\* a and b hold the same elements, each as often
IsPermutation(a, b) ==
    /\ Len(a) = Len(b)
    /\ \A x \in Range(a) \cup Range(b) : CountIn(x, a) = CountIn(x, b)

\* C18: with randomization off the presented list is in ascending order of
\* (speaker id as a number, pair_index) and is a permutation of the
\* discovered list.
C18_SortedByKey ==
    \A r \in 1..Len(orderLog) :
        ~orderLog[r].randomize =>
            LET p == orderLog[r].presented
            IN  /\ \A i, j \in 1..Len(p) : i < j => ~SortKeyLess(p[j], p[i])
                /\ IsPermutation(p, orderLog[r].discovered)

\* C18 witness: a run with randomization off whose sort moved a sample: the
\* samples of speaker 28165 are presented before those of 124992.
C18_Witness ==
    \E r \in 1..Len(orderLog) :
        /\ ~orderLog[r].randomize
        /\ Len(orderLog[r].presented) >= 3
        /\ orderLog[r].presented # orderLog[r].discovered

\* C19: with randomization on the presented list is a permutation of the
\* discovered list, and two runs with the same evaluator number on the same
\* files present the same list, so that an index denotes the same item.
C19_ShuffleByEvaluator ==
    \A r \in 1..Len(orderLog) :
        orderLog[r].randomize =>
            /\ IsPermutation(orderLog[r].presented, orderLog[r].discovered)
            /\ \A q \in 1..Len(orderLog) :
                  (/\ orderLog[q].randomize
                   /\ orderLog[q].evaluator_number = orderLog[r].evaluator_number
                   /\ orderLog[q].discovered = orderLog[r].discovered)
                  => orderLog[q].presented = orderLog[r].presented

\* C19 witness: two randomized runs with the same evaluator number presented
\* a list of at least three samples in an order that is not the discovered one.
C19_Witness ==
    /\ Len(orderLog) >= 2
    /\ orderLog[1].randomize /\ orderLog[2].randomize
    /\ orderLog[1].evaluator_number = orderLog[2].evaluator_number
    /\ Len(orderLog[2].presented) >= 3
    /\ orderLog[2].presented # orderLog[2].discovered

\* the matching files of the directory of the speaker at position k
MatchingFiles(k) == {e \in Listing(audioTree[k]) : e.is_file /\ e.name.stem = "zero_shot"}

\* the pair indices of the samples of a list that belong to a speaker
IndicesOfSpeaker(list, spk) ==
    LET own == SelectSeq(list, LAMBDA x : x.speaker_id = spk)
    IN  [j \in 1..Len(own) |-> own[j].pair_index]

\* C20: for each configured speaker whose directory exists the discovered
\* list holds one sample per file zero_shot_<i>.wav for the max_per_speaker
\* smallest indices, ascending, and none for other entries; the fine-tune
\* path of a sample is absent iff fine_tuned_<i>.wav does not exist; a
\* speaker without directory contributes no sample.
C20_Discovery ==
    \A r \in 1..Len(orderLog) :
        LET found == orderLog[r].discovered
        IN  /\ \A k \in 1..Len(speakers) :
                  LET q == IndicesOfSpeaker(found, speakers[k])
                      M == MatchingFiles(k)
                  IN  IF audioTree[k] = "missing" THEN q = <<>>
                      ELSE /\ \A i, j \in 1..Len(q) : i < j => q[i] <= q[j]
                           /\ Len(q) = Min(Cardinality(M), max_per_speaker)
                           /\ \A v \in 0..MaxFileIndex :
                                 CountIn(v, q) =
                                     Min(Cardinality({e \in M : e.name.index = v}),
                                         Max(0, max_per_speaker
                                                - Cardinality({e \in M : e.name.index < v})))
            /\ \A i \in 1..Len(found) :
                  \E k \in 1..Len(speakers) :
                      /\ speakers[k] = found[i].speaker_id
                      /\ (found[i].fine_tune_audio_wav = NoPath) <=>
                            ~\E e \in Listing(audioTree[k]) :
                                  e.name = FileName("fine_tuned", 0, found[i].pair_index)

\* C20 witness: a run discovered samples on a tree with a directory holding
\* more than max_per_speaker files, a missing directory and a directory with
\* entries that are no zero_shot files.
C20_Witness ==
    /\ Len(orderLog) >= 1
    /\ \E k \in 1..Len(speakers) : audioTree[k] = "many"
    /\ \E k \in 1..Len(speakers) : audioTree[k] = "missing"
    /\ \E k \in 1..Len(speakers) : audioTree[k] = "odd"
    /\ \E i \in 1..Len(orderLog[1].discovered) :
          orderLog[1].discovered[i].fine_tune_audio_wav = NoPath

\* a text-pairs file in this state is a list of pairs that can be read
Resolves(kind) == kind \in {"dicts", "lists"}

\* the text a readable file holds for index i, blanks stripped; empty when
\* the file has no usable pair at i
ResolvedText(kind, origin, lang, i) ==
    IF i < PairsInFile /\ (kind = "dicts" \/ i # 1)
    THEN Text(0, <<lang, origin, i>>)
    ELSE EmptyText

\* the texts of sample s are those of file `origin` in state kind
TextsFrom(s, kind, origin) ==
    /\ s.source_text_en = ResolvedText(kind, origin, "en", s.pair_index)
    /\ s.target_text_es = ResolvedText(kind, origin, "es", s.pair_index)

TextsEmpty(s) == s.source_text_en = EmptyText /\ s.target_text_es = EmptyText

\* C21 as stated: the texts of a discovered sample come from the per-speaker
\* file when it resolves, from the global file when the per-speaker file
\* does not resolve (absent or unreadable) and the global one does, and are
\* empty strings when neither resolves.
C21_FallbackWhenUnresolved ==
    \A r \in 1..Len(orderLog) :
        \A i \in 1..Len(orderLog[r].discovered) :
            LET s   == orderLog[r].discovered[i]
                own == SpeakerPairFile(s.speaker_id, pairFiles)
            IN  IF Resolves(own) THEN TextsFrom(s, own, "speaker")
                ELSE IF Resolves(pairFiles.global)
                THEN TextsFrom(s, pairFiles.global, "global")
                ELSE TextsEmpty(s)

\* C21 amended: the per-speaker file is the one consulted whenever it
\* exists and the global file only when the per-speaker file is absent; the
\* texts are those of the consulted file when it is a readable list of
\* pairs and empty strings when it is not or when neither file exists.
C21_FirstFoundWins ==
    \A r \in 1..Len(orderLog) :
        \A i \in 1..Len(orderLog[r].discovered) :
            LET s   == orderLog[r].discovered[i]
                own == SpeakerPairFile(s.speaker_id, pairFiles)
            IN  IF own # "absent"
                THEN IF Resolves(own) THEN TextsFrom(s, own, "speaker")
                     ELSE TextsEmpty(s)
                ELSE IF Resolves(pairFiles.global)
                THEN TextsFrom(s, pairFiles.global, "global")
                ELSE TextsEmpty(s)

\* C21 witness: the first speaker's own file exists but cannot be read and
\* the global file is a readable list; a run discovered a sample of the
\* first speaker with empty texts and a sample of another speaker with the
\* texts of the global file.
C21_Witness ==
    /\ pairFiles.speaker = "corrupt" /\ pairFiles.global = "dicts"
    /\ Len(orderLog) >= 1
    /\ \E i, j \in 1..Len(orderLog[1].discovered) :
          LET a == orderLog[1].discovered[i]
              b == orderLog[1].discovered[j]
          IN  /\ a.speaker_id = speakers[1] /\ a.pair_index = 0 /\ TextsEmpty(a)
              /\ b.speaker_id # speakers[1] /\ b.pair_index = 1
              /\ b.source_text_en = Text(0, <<"en", "global", 1>>)

(***************************************************************************)
(* Experiment runner: ExperimentRunner.run(manifest).                      *)
(* Lines 59-91 of run_experiment.py are indented one level deeper than the *)
(* statements around them; they are read here as what they continue: the   *)
(* body of the try block, in statement order.                              *)
(***************************************************************************)
\* setup_experiment.py:10  reference_durations (the first two defaults)
Durations == <<5, 10>>

\* speaker embeddings returned by extract_embedding: vectors of different
\* directions and lengths
Embeddings == {<<3, 4>>, <<4, 3>>, <<-6, -8>>}

Dot(a, b) == a[1] * b[1] + a[2] * b[2]

\* the Euclidean norm of a vector whose norm is a whole number
Norm(v) == CHOOSE n \in 0..Dot(v, v) : n * n = Dot(v, v)

Abs(x) == IF x < 0 THEN -x ELSE x

RECURSIVE Gcd(_, _)
Gcd(a, b) == IF b = 0 THEN a ELSE Gcd(b, a % b)

\* the number n / d (d > 0) in lowest terms
Fraction(n, d) ==
    LET g == Gcd(Abs(n), d)
    IN  [num |-> n \div g, den |-> d \div g]

\* (variant: the dot product is not divided by the norms)
cosine_similarity_Unnormalised(a, b) == Fraction(Dot(a, b), 1)

\* F.cosine_similarity(a, b).item(): x . y / max(|x| * |y|, eps); with a
\* vector of norm 0 the numerator is 0 and so is the quotient
cosine_similarity(a, b) ==
    LET n == Norm(a) * Norm(b)
    IN  IF n = 0 THEN Fraction(0, 1) ELSE Fraction(Dot(a, b), n)

RefPath(subject, duration) == <<"experiment_data", subject, "ref", duration>>
ClipPath(subject) == <<"clips", subject>>

\* output_path = os.path.join(os.path.dirname(ref_path), f"out_{sample_id}_{duration}s.wav")
OutputPath(ref_path, sample_id, duration) ==
    <<ref_path[1], ref_path[2], "out", sample_id, duration>>

\* a manifest entry of the shape run() reads
Entry(subject, duration) ==
    [sample_id       |-> subject,
     test_input_path |-> ClipPath(subject),
     test_input_text |-> <<"en", subject>>,
     reference_path  |-> RefPath(subject, duration),
     target_duration |-> duration]

Entries == {Entry(sub, Durations[d]) : sub \in 1..MaxSubjects, d \in 1..Len(Durations)}

Manifests == UNION {[1..n -> Entries] : n \in 0..MaxManifest}

PathsOf(m) == {m[i].test_input_path : i \in 1..Len(m)}
              \cup {m[i].reference_path : i \in 1..Len(m)}

NoLocals == [gt_embedding |-> "unset", spanish_text |-> "unset",
             output_path |-> "unset", output_embedding |-> "unset",
             similarity_score |-> "unset",
             transcribed_spanish |-> "unset"]

InitRun ==
    /\ manifest \in Manifests
    /\ files \in SUBSET PathsOf(manifest)
    /\ pc = "for"
    /\ pos = 1
    /\ results = <<>>
    /\ hasAsr = FALSE
    /\ locals = NoLocals
    /\ raisedLog = <<>>
    /\ resultsFile = NoFile
    /\ runNo = 1
    /\ runStart = 0
    /\ calls = <<>>

item == manifest[pos]

\* (variant: the exception leaves run())
Caught_Propagates(call) ==
    /\ pc' = "aborted"
    /\ raisedLog' = Append(raisedLog, call)
    /\ UNCHANGED <<manifest, files, results, pos, locals>>

\* except Exception as e: print(...) ; the loop goes on with the next item
Caught(call) ==
    /\ pc' = "for"
    /\ pos' = pos + 1
    /\ locals' = NoLocals
    /\ raisedLog' = Append(raisedLog, call)
    /\ UNCHANGED <<manifest, files, results>>

\* (variant: break instead of continue)
SkipMissingRef_Breaks ==
    /\ pc' = "returned"
    /\ raisedLog' = Append(raisedLog, "none")
    /\ UNCHANGED <<manifest, files, results, hasAsr, locals, pos>>

\* if not os.path.exists(ref_path): continue
SkipMissingRef ==
    /\ pc' = "for"
    /\ pos' = pos + 1
    /\ raisedLog' = Append(raisedLog, "none")
    /\ UNCHANGED <<manifest, files, results, hasAsr, locals>>

\* the keys of item read at lines 34-37, before the try block
ReadKeys == {"sample_id", "test_input_path", "reference_path", "target_duration"}

\* for item in manifest: ... if not os.path.exists(ref_path): continue
\* (item[...] of an absent key raises KeyError outside the try block)
ForItem ==
    /\ UNCHANGED <<evalVars, setupVars, discoverVars>>
    /\ UNCHANGED <<resultsFile, runNo, runStart>>
    /\ pc = "for"
    /\ calls' = <<>>
    /\ IF pos > Len(manifest)
       THEN /\ pc' = "returned"
            /\ UNCHANGED <<manifest, files, results, hasAsr, locals, pos, raisedLog>>
       ELSE IF ~(ReadKeys \subseteq DOMAIN item)
       THEN /\ pc' = "aborted"
            /\ UNCHANGED <<manifest, files, results, hasAsr, locals, pos, raisedLog>>
       ELSE IF item.reference_path \notin files
       THEN SkipMissingRef
       ELSE /\ pc' = "embed_gt"
            /\ UNCHANGED <<manifest, files, results, hasAsr, locals, pos, raisedLog>>

\* gt_embedding = self.embedding_service.extract_embedding(test_input_path)
EmbedTestInput ==
    /\ UNCHANGED <<evalVars, setupVars, discoverVars>>
    /\ UNCHANGED <<resultsFile, runNo, runStart>>
    /\ pc = "embed_gt"
    /\ calls' = Append(calls, <<"extract_embedding", item.test_input_path>>)
    /\ \/ /\ item.test_input_path \in files
          /\ \E e \in Embeddings : locals' = [locals EXCEPT !.gt_embedding = e]
          /\ pc' = "translate"
          /\ UNCHANGED <<manifest, files, results, pos, raisedLog>>
       \/ Caught("embed_gt")
    /\ UNCHANGED hasAsr

\* (variant: the output embedding is asked for right after the translation)
Translate_SkipsSynthesis ==
    /\ UNCHANGED <<evalVars, setupVars, discoverVars>>
    /\ UNCHANGED <<resultsFile, runNo, runStart>>
    /\ pc = "translate"
    /\ calls' = Append(calls, <<"translate", item.test_input_text>>)
    /\ locals' = [locals EXCEPT
                     !.spanish_text = <<"es", item.sample_id>>,
                     !.output_path = OutputPath(item.reference_path, item.sample_id,
                                                item.target_duration)]
    /\ files' = files \cup {OutputPath(item.reference_path, item.sample_id,
                                       item.target_duration)}
    /\ pc' = "embed_out"
    /\ UNCHANGED <<manifest, results, pos, raisedLog, hasAsr>>

\* spanish_text = self.synth_service.translator.translate(english_text, ...)
Translate ==
    /\ UNCHANGED <<evalVars, setupVars, discoverVars>>
    /\ UNCHANGED <<resultsFile, runNo, runStart>>
    /\ pc = "translate"
    /\ calls' = Append(calls, <<"translate", item.test_input_text>>)
    /\ \/ /\ locals' = [locals EXCEPT !.spanish_text = <<"es", item.sample_id>>]
          /\ pc' = "synthesize"
          /\ UNCHANGED <<manifest, files, results, pos, raisedLog>>
       \/ Caught("translate")
    /\ UNCHANGED hasAsr

\* self.synth_service.tts.synthesize(spanish_text, output_path, ref_path)
Synthesize ==
    /\ UNCHANGED <<evalVars, setupVars, discoverVars>>
    /\ UNCHANGED <<resultsFile, runNo, runStart>>
    /\ pc = "synthesize"
    /\ calls' = Append(calls,
           <<"synthesize", locals.spanish_text,
             OutputPath(item.reference_path, item.sample_id, item.target_duration),
             item.reference_path>>)
    /\ \/ LET out == OutputPath(item.reference_path, item.sample_id, item.target_duration)
          IN  /\ locals' = [locals EXCEPT !.output_path = out]
              /\ files' = files \cup {out}
              /\ pc' = "embed_out"
              /\ UNCHANGED <<manifest, results, pos, raisedLog>>
       \/ Caught("synthesize")
    /\ UNCHANGED hasAsr

\* output_embedding = ...extract_embedding(output_path); similarity = F.cosine_similarity(...)
EmbedOutput ==
    /\ UNCHANGED <<evalVars, setupVars, discoverVars>>
    /\ UNCHANGED <<resultsFile, runNo, runStart>>
    /\ pc = "embed_out"
    /\ calls' = Append(calls, <<"extract_embedding", locals.output_path>>)
    /\ \/ /\ locals.output_path \in files
          /\ \E e \in Embeddings :
                locals' = [locals EXCEPT
                              !.output_embedding = e,
                              !.similarity_score = cosine_similarity(locals.gt_embedding, e)]
          /\ pc' = "transcribe"
          /\ UNCHANGED <<manifest, files, results, pos, raisedLog>>
       \/ Caught("embed_out")
    /\ UNCHANGED hasAsr

\* if not hasattr(self, 'asr'): self.asr = ASRService()
\* transcribed_spanish = self.asr.transcribe(output_path)
Transcribe ==
    /\ UNCHANGED <<evalVars, setupVars, discoverVars>>
    /\ UNCHANGED <<resultsFile, runNo, runStart>>
    /\ pc = "transcribe"
    /\ \/ /\ \E heard \in {"same", "other"} :
                locals' = [locals EXCEPT !.transcribed_spanish = <<heard, item.sample_id>>]
          /\ hasAsr' = TRUE
          /\ pc' = "append"
          /\ calls' = Append(calls, <<"transcribe", locals.output_path>>)
          /\ UNCHANGED <<manifest, files, results, pos, raisedLog>>
       \/ \* ASRService() raises
          /\ ~hasAsr
          /\ Caught("asr_init")
          /\ UNCHANGED <<hasAsr, calls>>
       \/ \* transcribe raises
          /\ Caught("transcribe")
          /\ hasAsr' = TRUE
          /\ calls' = Append(calls, <<"transcribe", locals.output_path>>)

\* self.results.append({...})
AppendResult ==
    /\ UNCHANGED <<evalVars, setupVars, discoverVars>>
    /\ UNCHANGED <<resultsFile, runNo, runStart>>
    /\ UNCHANGED calls
    /\ pc = "append"
    /\ results' = Append(results,
           [sample_id        |-> item.sample_id,
            duration         |-> item.target_duration,
            similarity_score |-> locals.similarity_score,
            original_text    |-> item.test_input_text,
            target_text      |-> locals.spanish_text,
            transcribed_text |-> locals.transcribed_spanish,
            output_path      |-> locals.output_path])
    /\ pc' = "for"
    /\ pos' = pos + 1
    /\ locals' = NoLocals
    /\ raisedLog' = Append(raisedLog, "none")
    /\ UNCHANGED <<manifest, files, hasAsr>>

NextRun ==
    \/ ForItem
    \/ EmbedTestInput
    \/ Translate
    \/ Synthesize
    \/ EmbedOutput
    \/ Transcribe
    \/ AppendResult

\* the columns of pd.DataFrame(self.results): the keys of the records
ResultColumns == <<"sample_id", "duration", "similarity_score", "original_text",
                   "target_text", "transcribed_text", "output_path">>

\* the line to_csv writes for one record: its values in column order
CsvLine(rec) == [kind |-> "row", cells |-> [c \in 1..Len(ResultColumns) |-> rec[ResultColumns[c]]]]

\* what df.to_csv(filename, index=False) leaves in the file: the column line
\* (empty for a frame without records) and one line per record
CsvOf(recs) ==
    [exists |-> TRUE,
     lines  |-> <<[kind |-> "header",
                   cells |-> IF recs = <<>> THEN <<>> ELSE ResultColumns]>>
                \o [j \in 1..Len(recs) |-> CsvLine(recs[j])]]

\* (variant: the file is opened for appending)
CsvWritten_Appended(old, recs) ==
    [exists |-> TRUE, lines |-> old.lines \o CsvOf(recs).lines]

\* to_csv opens the file for writing: what was there is replaced
CsvWritten(old, recs) == CsvOf(recs)

\* runner.save_results(), called by the script after run() has returned
save_results ==
    /\ UNCHANGED <<evalVars, setupVars, discoverVars>>
    /\ pc = "returned"
    /\ resultsFile' = CsvWritten(resultsFile, results)
    /\ pc' = "saved"
    /\ UNCHANGED <<manifest, files, pos, results, hasAsr, locals, raisedLog,
                   runNo, runStart, calls>>

\* (variant: run() starts from an empty collection)
RunAgain_ClearsResults ==
    /\ UNCHANGED <<evalVars, setupVars, discoverVars>>
    /\ pc \in {"returned", "saved"}
    /\ runNo < MaxRunCalls
    /\ runNo' = runNo + 1
    /\ results' = <<>>
    /\ runStart' = 0
    /\ pc' = "for"
    /\ pos' = 1
    /\ raisedLog' = <<>>
    /\ UNCHANGED <<manifest, files, hasAsr, locals, resultsFile, calls>>

\* run(manifest) is called once more on the same runner
RunAgain ==
    /\ UNCHANGED <<evalVars, setupVars, discoverVars>>
    /\ pc \in {"returned", "saved"}
    /\ runNo < MaxRunCalls
    /\ runNo' = runNo + 1
    /\ runStart' = Len(results)
    /\ pc' = "for"
    /\ pos' = 1
    /\ raisedLog' = <<>>
    /\ UNCHANGED <<manifest, files, results, hasAsr, locals, resultsFile, calls>>

\* a runner on which run() and save_results() are called in turn
NextRuns ==
    \/ ForItem
    \/ EmbedTestInput
    \/ Translate
    \/ Synthesize
    \/ EmbedOutput
    \/ Transcribe
    \/ AppendResult
    \/ save_results
    \/ RunAgain

(***************************************************************************)
(* Experiment setup: ExperimentSetup.prepare_data and the concatenation    *)
(* builder _create_concatenated_audio.  A duration is a number of seconds  *)
(* given as a fraction in lowest terms: [num |-> 11, den |-> 2] is 5.5.    *)
(***************************************************************************)
Seconds(n, q) == [num |-> n, den |-> q]

\* the lists given as reference_durations: the default [5.0, 10.0, 20.0], a
\* list with two durations in the same second, one that is no whole number
\* of samples
DurationLists ==
    {<<Seconds(5, 1), Seconds(10, 1), Seconds(20, 1)>>,
     <<Seconds(5, 1), Seconds(11, 2)>>,
     <<Seconds(2, 3), Seconds(10, 1)>>}
\* setup_experiment.py:38  speaker_counts > 10
MinClips == 10
\* setup_experiment.py:100  samplerate = 16000
samplerate == 16000
\* the rate of a clip that is not at 16 kHz (Common Voice ships 48 kHz audio)
OtherRate == 48000

\* what the clips of a speaker look like; clip 1 is the one the shuffle puts first
ClipPatterns == {"all_ok", "pool_missing", "pool_other_rate", "one_usable", "alternating",
                 "pool_zero_length"}

ClipExists(pattern, k) ==
    CASE pattern = "pool_missing" -> k = 1
      [] pattern = "one_usable"   -> k \in {1, 3}
      [] OTHER                    -> TRUE

ClipRate(pattern, k) ==
    CASE pattern = "pool_other_rate" -> IF k = 1 THEN samplerate ELSE OtherRate
      [] pattern = "alternating"     -> IF k % 2 = 1 THEN samplerate ELSE OtherRate
      [] OTHER                       -> samplerate

\* len(data): the clips last ClipSeconds seconds, or hold no sample at all
ClipLen(pattern, k) ==
    IF pattern = "pool_zero_length" /\ k # 1 THEN 0
    ELSE ClipSeconds * ClipRate(pattern, k)

\* one row of the corpus with what sf.read returns for it
Clip(spk, k) ==
    [path     |-> <<"clips", spk, k>>,
     sentence |-> <<"en", spk, k>>,
     exists   |-> ClipExists(corpus[spk].pattern, k),
     fs       |-> ClipRate(corpus[spk].pattern, k),
     len      |-> ClipLen(corpus[spk].pattern, k)]

\* dataset.get_samples_by_speaker(speaker_id), shuffled with the seed
speaker_samples(spk) == [k \in 1..corpus[spk].count |-> Clip(spk, k)]

\* int(duration): truncation (durations are not negative)
IntSeconds(duration) == duration.num \div duration.den

\* os.path.join(self.output_dir, speaker_id, f"ref_{int(duration)}s.wav")
ReferencePath(spk, duration) == <<"experiment_data", spk, "ref", IntSeconds(duration)>>

\* (variant: the loop does not stop when the target is reached)
RECURSIVE Accumulate_NoBreak(_, _, _, _, _)
Accumulate_NoBreak(rows, k, target, buffer, total) ==
    IF k > Len(rows) THEN [buffer |-> buffer, total |-> total, reads |-> <<>>]
    ELSE IF ~rows[k].exists
    THEN Accumulate_NoBreak(rows, k + 1, target, buffer, total)
    ELSE LET rest == IF rows[k].fs # samplerate
                     THEN Accumulate_NoBreak(rows, k + 1, target, buffer, total)
                     ELSE Accumulate_NoBreak(rows, k + 1, target,
                                             Append(buffer, rows[k].path),
                                             total + rows[k].len)
         IN  [rest EXCEPT !.reads = <<rows[k].path>> \o @]

\* the loop of _create_concatenated_audio from row k on: the clips appended
\* to audio_buffer, the number of samples accumulated, and the paths handed
\* to sf.read, in the order of the calls
RECURSIVE Accumulate(_, _, _, _, _)
Accumulate(rows, k, target, buffer, total) ==
    IF k > Len(rows) THEN [buffer |-> buffer, total |-> total, reads |-> <<>>]
    ELSE IF total * target.den >= target.num * samplerate  \* current_duration >= target
    THEN [buffer |-> buffer, total |-> total, reads |-> <<>>]
    ELSE IF ~rows[k].exists                            \* not os.path.exists(path)
    THEN Accumulate(rows, k + 1, target, buffer, total)
    ELSE LET rest == IF rows[k].fs # samplerate        \* fs != samplerate
                     THEN Accumulate(rows, k + 1, target, buffer, total)
                     ELSE Accumulate(rows, k + 1, target,
                                     Append(buffer, rows[k].path),
                                     total + rows[k].len)
         IN  [rest EXCEPT !.reads = <<rows[k].path>> \o @]

NoAudio == [written |-> FALSE]

\* (variant: the product is rounded to the nearest integer)
TargetSamples_Rounded(target) ==
    (2 * target.num * samplerate + target.den) \div (2 * target.den)

\* target_samples = int(target_duration_sec * samplerate)
TargetSamples(target) == (target.num * samplerate) \div target.den

\* _create_concatenated_audio(dataset, sample_rows, target_duration_sec, output_path):
\* the audio handed to sf.write, or NoAudio when the function returns early
create_concatenated_audio(rows, target) ==
    LET acc == Accumulate(rows, 1, target, <<>>, 0)
        target_samples == TargetSamples(target)
    IN  IF acc.buffer = <<>> THEN NoAudio
        ELSE [written    |-> TRUE,
              samplerate |-> samplerate,
              clips      |-> acc.buffer,
              length     |-> IF acc.total > target_samples THEN target_samples
                             ELSE acc.total]

Corpora == [1..MaxSubjects ->
               [count : MinClips..(MinClips + MaxExtraClips), pattern : ClipPatterns]]

InitSetup ==
    /\ corpus \in Corpora
    /\ num_speakers \in 1..MaxSubjects
    /\ reference_durations \in DurationLists
    /\ selected_speakers = <<>>
    /\ setupPc = "select"
    /\ spkPos = 1
    /\ durPos = 1
    /\ ref_paths = <<>>
    /\ experiment_manifest = <<>>
    /\ written = <<>>
    /\ rngDraws = 0
    /\ rngStream = <<>>
    /\ returned = <<>>

\* does value_counts() list speaker a before speaker b: larger count first,
\* equal counts in the order of the corpus
CountsBefore(a, b) ==
    \/ corpus[a].count > corpus[b].count
    \/ corpus[a].count = corpus[b].count /\ a < b

\* speaker_counts[speaker_counts > 10].index.tolist()
eligible_speakers ==
    LET E == {spk \in 1..MaxSubjects : corpus[spk].count > MinClips}
    IN  CHOOSE q \in [1..Cardinality(E) -> E] :
            \A i, j \in 1..Cardinality(E) : i < j => CountsBefore(q[i], q[j])

\* (variant: the speakers are drawn with replacement)
Arrangements_WithReplacement(S, n) == [1..n -> S]

\* the sequences without repetition of n members of S: the lists that
\* random.sample(population, n) can return
Arrangements(S, n) ==
    {q \in [1..n -> S] : \A a, b \in 1..n : a # b => q[a] # q[b]}

\* random.sample(eligible_speakers, num_speakers) on the module-level generator:
\* its result is fixed by the seed and by the number of draws made since
\* random.seed(seed); rngStream records the results already observed
RandomSample ==
    /\ rngDraws' = rngDraws + 1
    /\ IF rngDraws + 1 <= Len(rngStream)
       THEN /\ selected_speakers' = rngStream[rngDraws + 1]
            /\ UNCHANGED rngStream
       ELSE \E q \in Arrangements(Range(eligible_speakers), num_speakers) :
            /\ selected_speakers' = q
            /\ rngStream' = Append(rngStream, q)

\* lines 37-46: the eligible speakers, or random.sample of num_speakers of them
SelectSpeakers ==
    /\ UNCHANGED <<evalVars, runVars, discoverVars>>
    /\ setupPc = "select"
    /\ IF Len(eligible_speakers) < num_speakers
       THEN /\ selected_speakers' = eligible_speakers
            /\ UNCHANGED <<rngDraws, rngStream>>
       ELSE RandomSample
    /\ setupPc' = "speaker"
    /\ UNCHANGED <<corpus, num_speakers, spkPos, durPos, ref_paths,
                   experiment_manifest, written, reference_durations, returned>>

speaker_id == selected_speakers[spkPos]

\* lines 48-76: the next speaker, its test clip and its reference pool
NextSpeaker ==
    /\ UNCHANGED <<evalVars, runVars, discoverVars>>
    /\ setupPc = "speaker"
    /\ IF spkPos > Len(selected_speakers)
       THEN /\ setupPc' = "returned"
            /\ returned' = Append(returned, [manifest |-> experiment_manifest,
                                             files    |-> written])
            /\ UNCHANGED <<spkPos, durPos, ref_paths>>
       ELSE IF Len(speaker_samples(speaker_id)) < 2
       THEN /\ spkPos' = spkPos + 1
            /\ UNCHANGED <<setupPc, durPos, ref_paths, returned>>
       ELSE /\ setupPc' = "duration"
            /\ durPos' = 1
            /\ ref_paths' = <<>>
            /\ UNCHANGED <<spkPos, returned>>
    /\ UNCHANGED <<corpus, num_speakers, selected_speakers, experiment_manifest, written,
                   reference_durations, rngDraws, rngStream>>

\* (variant: the pool is the whole shuffled list, the test clip included)
reference_pool_WholeList(spk) == speaker_samples(spk)

\* reference_pool = speaker_samples.iloc[1:]
reference_pool(spk) == Tail(speaker_samples(spk))

\* lines 78-84: one reference file; its path is recorded in any case
CreateReference ==
    /\ UNCHANGED <<evalVars, runVars, discoverVars>>
    /\ setupPc = "duration"
    /\ durPos <= Len(reference_durations)
    /\ LET duration == reference_durations[durPos]
           ref_path == ReferencePath(speaker_id, duration)
           audio    == create_concatenated_audio(reference_pool(speaker_id), duration)
       IN  /\ written' = IF audio.written THEN (ref_path :> audio) @@ written
                         ELSE written
           /\ ref_paths' = (duration :> ref_path) @@ ref_paths
    /\ durPos' = durPos + 1
    /\ UNCHANGED <<corpus, num_speakers, selected_speakers, setupPc, spkPos,
                   experiment_manifest, reference_durations, rngDraws, rngStream,
                   returned>>

\* lines 86-92: experiment_manifest.append({...})
RecordSpeaker ==
    /\ UNCHANGED <<evalVars, runVars, discoverVars>>
    /\ setupPc = "duration"
    /\ durPos > Len(reference_durations)
    /\ experiment_manifest' = Append(experiment_manifest,
           [speaker_id      |-> speaker_id,
            test_input_path |-> speaker_samples(speaker_id)[1].path,
            test_input_text |-> speaker_samples(speaker_id)[1].sentence,
            reference_paths |-> ref_paths])
    /\ spkPos' = spkPos + 1
    /\ setupPc' = "speaker"
    /\ UNCHANGED <<corpus, num_speakers, selected_speakers, durPos, ref_paths, written,
                   reference_durations, rngDraws, rngStream, returned>>

\* entry of prepare_data: the locals of the call; the files written by
\* earlier calls stay on disk
EnterPrepareData ==
    /\ setupPc = "returned"
    /\ Len(returned) < MaxCalls
    /\ setupPc' = "select"
    /\ selected_speakers' = <<>>
    /\ spkPos' = 1
    /\ durPos' = 1
    /\ ref_paths' = <<>>
    /\ experiment_manifest' = <<>>
    /\ UNCHANGED <<corpus, num_speakers, written, reference_durations, rngStream,
                   returned>>

\* prepare_data is called once more on the same ExperimentSetup
CallAgain ==
    /\ UNCHANGED <<evalVars, runVars, discoverVars>>
    /\ EnterPrepareData
    /\ UNCHANGED rngDraws

\* a new ExperimentSetup with the same arguments: __init__ calls
\* random.seed(seed); then prepare_data is called on it
NewInstance ==
    /\ UNCHANGED <<evalVars, runVars, discoverVars>>
    /\ EnterPrepareData
    /\ rngDraws' = 0

NextSetup ==
    \/ SelectSpeakers
    \/ NextSpeaker
    \/ CreateReference
    \/ RecordSpeaker
    \/ CallAgain
    \/ NewInstance

(***************************************************************************)
(* The script of run_experiment.py: prepare_data, then run on the manifest *)
(* it returned.                                                            *)
(***************************************************************************)
\* the audio files run() can find: the clips of the corpus that exist and
\* the files the setup wrote
FilesOnDisk ==
    LET rows == {r \in (1..MaxSubjects) \X (1..(MinClips + MaxExtraClips)) :
                    r[2] <= corpus[r[1]].count /\ Clip(r[1], r[2]).exists}
    IN  {Clip(r[1], r[2]).path : r \in rows} \cup DOMAIN written

\* manifest = setup.prepare_data(num_speakers=2); runner.run(manifest)
RunOnManifest ==
    /\ UNCHANGED <<evalVars, setupVars, discoverVars>>
    /\ setupPc = "returned"
    /\ pc = "idle"
    /\ manifest' = experiment_manifest
    /\ files' = FilesOnDisk
    /\ pc' = "for"
    /\ pos' = 1
    /\ runNo' = runNo + 1
    /\ runStart' = Len(results)
    /\ UNCHANGED <<results, hasAsr, locals, raisedLog, resultsFile, calls>>

\* the script up to the first statement of the try block of run()
NextMain ==
    \/ SelectSpeakers
    \/ NextSpeaker
    \/ CreateReference
    \/ RecordSpeaker
    \/ RunOnManifest
    \/ ForItem

(***************************************************************************)
(* Claims about the experiment setup.                                      *)
(***************************************************************************)
\* C10: no manifest returned by prepare_data holds a dangling reference:
\* every recorded reference path names a file the setup wrote, and a speaker
\* for whom the builder wrote nothing is not in the manifest.
C10_NoDanglingReference ==
    setupPc = "returned" =>
        \A i \in 1..Len(experiment_manifest) :
            \A d \in DOMAIN experiment_manifest[i].reference_paths :
                experiment_manifest[i].reference_paths[d] \in DOMAIN written

\* C12: for every subject of the manifest the clip reserved as the test input
\* is not among the clips any of its reference files was built from, and no
\* reference path is the test input path.
C12_TestClipNotInPool ==
    \A i \in 1..Len(experiment_manifest) :
        LET entry == experiment_manifest[i]
        IN  \A d \in DOMAIN entry.reference_paths :
                /\ entry.reference_paths[d] # entry.test_input_path
                /\ entry.reference_paths[d] \in DOMAIN written =>
                       entry.test_input_path
                           \notin Range(written[entry.reference_paths[d]].clips)

\* C12 witness: prepare_data returned a manifest with a subject whose test
\* clip is a usable 16 kHz file and whose references were all written.
C12_Witness ==
    /\ setupPc = "returned"
    /\ \E i \in 1..Len(experiment_manifest) :
          LET entry == experiment_manifest[i]
          IN  /\ Clip(entry.speaker_id, 1).exists
              /\ Clip(entry.speaker_id, 1).fs = samplerate
              /\ \A d \in DOMAIN entry.reference_paths :
                     /\ entry.reference_paths[d] \in DOMAIN written
                     /\ Len(written[entry.reference_paths[d]].clips) >= 2

\* the reference files a returned manifest names, with their contents
ReferenceContents(r) ==
    LET paths == UNION {{r.manifest[i].reference_paths[d] :
                            d \in DOMAIN r.manifest[i].reference_paths} :
                        i \in 1..Len(r.manifest)}
    IN  [p \in paths \cap DOMAIN r.files |-> r.files[p]]

\* C13: for a fixed corpus and a fixed seed any two calls of prepare_data,
\* on two instances or twice on the same instance, return the same manifest
\* (same subjects in the same order, same test clips) and the same
\* reference file contents.
C13_DeterministicInSeed ==
    \A i, j \in 1..Len(returned) :
        /\ returned[i].manifest = returned[j].manifest
        /\ ReferenceContents(returned[i]) = ReferenceContents(returned[j])

\* one iteration of the loop over reference_durations is taken
BuildStep == setupPc = "duration" /\ durPos' = durPos + 1

\* the clip of the corpus stored at a path
ClipAt(path) == Clip(path[2], path[3])

\* the samples accumulated from the clips appended to a buffer
RECURSIVE AccumulatedSamples(_)
AccumulatedSamples(clips) ==
    IF clips = <<>> THEN 0
    ELSE ClipAt(Head(clips)).len + AccumulatedSamples(Tail(clips))

\* the positions of the pool whose clip exists at the builder's rate
Contributors(pool) ==
    {k \in 1..Len(pool) : pool[k].exists /\ pool[k].fs = samplerate}

\* the builder called in this step
BuiltDuration == reference_durations[durPos]
BuiltPool == reference_pool(speaker_id)
BuiltAudio == create_concatenated_audio(BuiltPool, BuiltDuration)
BuiltPath == ReferencePath(speaker_id, BuiltDuration)

RECURSIVE SamplesUpTo(_, _)
SamplesUpTo(pool, k) ==
    IF k = 0 THEN 0
    ELSE SamplesUpTo(pool, k - 1)
         + (IF k \in Contributors(pool) THEN pool[k].len ELSE 0)

\* the target duration is covered by n samples at the builder's rate
Covers(n, target) == n * target.den >= target.num * samplerate

\* the position at which the loop stops: the first one before which the
\* target is covered, or the one behind the pool
StopPosition(pool, target) ==
    CHOOSE k \in 1..(Len(pool) + 1) :
        /\ k = Len(pool) + 1 \/ Covers(SamplesUpTo(pool, k - 1), target)
        /\ \A j \in 1..(k - 1) : ~Covers(SamplesUpTo(pool, j - 1), target)

\* the paths of the clips of a pool at the positions of a set, in pool order
PathsAt(pool, positions) ==
    LET kept == SelectSeq([k \in 1..Len(pool) |-> k], LAMBDA k : k \in positions)
    IN  [j \in 1..Len(kept) |-> pool[kept[j]].path]

\* C27: the builder takes the candidates in pool order and stops at the
\* first position before which the cumulative duration covers the target,
\* or behind the pool: the clips appended are the contributors before that
\* position, in pool order, no clip at or after it is read, and what is
\* written is the first samples of the concatenation of the appended clips.
C27_InOrderUntilTarget ==
    [][BuildStep =>
        LET acc  == Accumulate(BuiltPool, 1, BuiltDuration, <<>>, 0)
            stop == StopPosition(BuiltPool, BuiltDuration)
        IN  /\ acc.buffer = PathsAt(BuiltPool,
                                    {k \in Contributors(BuiltPool) : k < stop})
            /\ acc.reads = PathsAt(BuiltPool,
                                   {k \in 1..Len(BuiltPool) :
                                        k < stop /\ BuiltPool[k].exists})
            /\ BuiltAudio.written =>
                   /\ written'[BuiltPath].clips = acc.buffer
                   /\ written'[BuiltPath].length <= AccumulatedSamples(acc.buffer)]_vars

\* C27 witness: a reference was written from a pool with a missing clip and
\* clips at another rate, and the target was covered before the pool's end:
\* clips behind the last appended one were left unread.
C27_Witness ==
    \E spk \in 1..MaxSubjects :
        /\ corpus[spk].pattern = "alternating"
        /\ \E path \in DOMAIN written :
              LET clips == written[path].clips
              IN  /\ path[2] = spk
                  /\ Len(clips) >= 2
                  /\ clips[Len(clips)][3] + 2 <= corpus[spk].count
                  /\ written[path].length < AccumulatedSamples(clips)

\* C15: the rate of the first candidate read becomes the rate of the
\* builder, later candidates at another rate are skipped, and a pool whose
\* clips all share one rate never comes out empty for lack of a rate match.
C15_FirstRateIsSessionRate ==
    [][BuildStep =>
        LET present == {k \in 1..Len(BuiltPool) : BuiltPool[k].exists}
            first   == CHOOSE k \in present : \A j \in present : k <= j
        IN  present # {} =>
                /\ BuiltAudio.written
                /\ BuiltAudio.samplerate = BuiltPool[first].fs
                /\ \A c \in Range(BuiltAudio.clips) :
                       ClipAt(c).fs = BuiltPool[first].fs]_vars

\* C16: every subject of a returned manifest is a speaker with more than 10
\* clips, no speaker appears twice, and when at least num_speakers speakers
\* are eligible the manifest has exactly num_speakers groups, each mapping
\* every requested duration to a reference path.
C16_SpeakerMode ==
    setupPc = "returned" =>
        LET m == experiment_manifest
            enough == {spk \in 1..MaxSubjects : corpus[spk].count > MinClips}
        IN  /\ \A i \in 1..Len(m) : corpus[m[i].speaker_id].count > MinClips
            /\ \A i, j \in 1..Len(m) : i # j => m[i].speaker_id # m[j].speaker_id
            /\ Cardinality(enough) >= num_speakers =>
                   /\ Len(m) = num_speakers
                   /\ \A i \in 1..Len(m) :
                          Range(reference_durations) \subseteq DOMAIN m[i].reference_paths

\* C16 witness: prepare_data returned two groups drawn by random.sample.
C16_Witness ==
    /\ setupPc = "returned"
    /\ num_speakers >= 2
    /\ Len(experiment_manifest) = num_speakers
    /\ rngDraws >= 1

\* C17: within one call of prepare_data distinct (subject, duration) pairs of
\* the request have distinct reference paths, so that each reference file is
\* written once and not overwritten by the reference of another pair.
C17_DistinctPaths ==
    setupPc = "returned" =>
        \A i, j \in 1..Len(experiment_manifest) :
            \A d \in DOMAIN experiment_manifest[i].reference_paths,
               e \in DOMAIN experiment_manifest[j].reference_paths :
                (i # j \/ d # e) =>
                    experiment_manifest[i].reference_paths[d]
                        # experiment_manifest[j].reference_paths[e]

\* C11: a manifest returned by prepare_data is consumable by run(): run()
\* started on it (as __main__ does) never aborts and visits every entry.
C11_ManifestConsumable ==
    /\ pc # "aborted"
    /\ pc = "returned" => pos = Len(manifest) + 1

(***************************************************************************)
(* Claims about the experiment runner.                                     *)
(***************************************************************************)
RefMissing(i) == manifest[i].reference_path \notin files

\* the records of the manifest entry at position i (by subject and duration)
RecordsOf(i) ==
    {j \in 1..Len(results) :
        /\ results[j].sample_id = manifest[i].sample_id
        /\ results[j].duration = manifest[i].target_duration}

\* entry i was reached with its reference on disk and no call raised for it
Succeeded(i) ==
    /\ i <= Len(raisedLog)
    /\ ~RefMissing(i)
    /\ raisedLog[i] = "none"

\* C8: an entry whose reference path is not on disk produces no record, and
\* every entry of the manifest is still visited: each one whose own
\* processing succeeds has its record when run() returns.
C8_MissingRefSkipped ==
    pc = "returned" =>
        /\ Len(raisedLog) = Len(manifest)
        /\ \A i \in 1..Len(manifest) :
              /\ RefMissing(i) => RecordsOf(i) = {}
              /\ Succeeded(i) => RecordsOf(i) # {}

\* C8 witness: run() returned, the first entry had no reference on disk and
\* a later entry has its record.
C8_Witness ==
    /\ pc = "returned"
    /\ Len(manifest) >= 2
    /\ RefMissing(1)
    /\ \E i \in 2..Len(manifest) : Succeeded(i) /\ RecordsOf(i) # {}

\* (subject, duration) of the entries that succeeded, in manifest order
RECURSIVE SucceededFrom(_)
SucceededFrom(k) ==
    IF k > Len(manifest) THEN <<>>
    ELSE (IF Succeeded(k)
          THEN <<<<manifest[k].sample_id, manifest[k].target_duration>>>>
          ELSE <<>>)
         \o SucceededFrom(k + 1)

ResultKeys == [j \in 1..Len(results) |-> <<results[j].sample_id, results[j].duration>>]

\* a call raised in this step
RaiseStep ==
    /\ Len(raisedLog') = Len(raisedLog) + 1
    /\ raisedLog'[Len(raisedLog')] # "none"

\* C9: a failure on one entry never leaves run(): the entry adds no record,
\* the records collected so far stay, the loop goes on with the next entry,
\* and run() returns with exactly the records of the entries that succeeded.
C9_FailureContained ==
    /\ [](pc # "aborted")
    /\ [](pc = "returned" =>
            /\ pos = Len(manifest) + 1
            /\ Len(raisedLog) = Len(manifest)
            /\ ResultKeys = SucceededFrom(1))
    /\ [][RaiseStep => /\ results' = results
                       /\ pos' = pos + 1
                       /\ pc' = "for"]_vars

\* C9 witness: run() returned; a call raised for the first entry and a later
\* entry has its record.
C9_Witness ==
    /\ pc = "returned"
    /\ Len(manifest) >= 2
    /\ ~RefMissing(1)
    /\ raisedLog[1] # "none"
    /\ results # <<>>

\* entry i was reached with its reference on disk, and embedding,
\* translation and synthesis all returned for it (only the transcription,
\* if anything, raised)
SynthesizedOk(i) ==
    /\ i <= Len(raisedLog)
    /\ ~RefMissing(i)
    /\ raisedLog[i] \in {"none", "asr_init", "transcribe"}

\* C23: the round-trip transcription is no gate: when run() returns, every
\* entry whose embeddings, translation and synthesis succeeded has a record,
\* whether or not its transcription succeeded.
C23_AsrIsNoGate ==
    pc = "returned" =>
        \A i \in 1..Len(manifest) : SynthesizedOk(i) => RecordsOf(i) # {}

\* (subject, duration) of the records appended since the current run() began
KeysOfRun ==
    [j \in 1..(Len(results) - runStart) |->
        <<results[runStart + j].sample_id, results[runStart + j].duration>>]

\* C24: the results collection is append-only across calls of run(): a step
\* adds at most one record at the end and leaves every earlier record as it
\* was, in place; when a run() has returned, the records it added are those
\* of the entries it processed with success, one each, in manifest order.
C24_AppendOnly ==
    /\ [][/\ Len(results) <= Len(results')
          /\ Len(results') <= Len(results) + 1
          /\ SubSeq(results', 1, Len(results)) = results]_vars
    /\ [](pc \in {"returned", "saved"} =>
            /\ runStart <= Len(results)
            /\ KeysOfRun = SucceededFrom(1))

\* C24 witness: a second run() on the runner has returned and added a record
\* behind the records of the first run.
C24_Witness ==
    /\ runNo = 2
    /\ pc = "returned"
    /\ runStart >= 1
    /\ Len(results) > runStart

\* the score lies in [-1.0, 1.0]
InUnitRange(score) == score.den > 0 /\ -score.den <= score.num /\ score.num <= score.den

ExpectedCalls(entry) ==
    LET out == OutputPath(entry.reference_path, entry.sample_id, entry.target_duration)
    IN  <<<<"extract_embedding", entry.test_input_path>>,
          <<"translate", entry.test_input_text>>,
          <<"synthesize", <<"es", entry.sample_id>>, out, entry.reference_path>>,
          <<"extract_embedding", out>>,
          <<"transcribe", out>>>>

\* a step that appends a record
AppendStep == Len(results') = Len(results) + 1

\* C26: for each entry the collaborators are called in the order
\* embed(test input), translate, synthesize(translated text, output path,
\* reference path), embed(output path): the calls made so far are always a
\* prefix of that sequence, so the output embedding is never asked for
\* before synthesize has returned, and a record is appended only after all
\* of them have been made and have returned.
C26_CallOrder ==
    /\ [](pc \notin {"idle", "for", "returned", "saved", "aborted"} =>
            /\ Len(calls) <= Len(ExpectedCalls(item))
            /\ calls = SubSeq(ExpectedCalls(item), 1, Len(calls)))
    /\ [](pc = "embed_out" => /\ Len(calls) = 3
                              /\ locals.output_path \in files)
    /\ [][AppendStep => /\ calls = ExpectedCalls(item)
                        /\ results'[Len(results')].output_path = calls[4][2]]_vars

\* C26 witness: a record was appended for the second entry of the manifest
\* after the five calls were made for it.
C26_Witness ==
    /\ Len(results) >= 1
    /\ pos = 3
    /\ pc = "for"
    /\ Len(calls) = 5
    /\ raisedLog[2] = "none"

\* C22 as stated: when run(manifest) has returned the results file has been
\* written with one row per record.
C22_WrittenAtReturn ==
    pc = "returned" =>
        /\ resultsFile.exists
        /\ Len(resultsFile.lines) = Len(results) + 1

\* a step that writes the results file
WritesResultsFile == resultsFile' # resultsFile

\* C22 amended: the results file is written by save_results only, a call
\* made after run() has returned; no step of run() writes it, so it is
\* never written while entries are processed; when save_results returns
\* the file holds the column line and exactly one row per record of the
\* collection, in order, whatever it held before.
C22_WrittenBySaveResults ==
    /\ [][WritesResultsFile => pc = "returned" /\ pc' = "saved"]_vars
    /\ [](pc = "saved" =>
            /\ resultsFile.exists
            /\ Len(resultsFile.lines) = Len(results) + 1
            /\ \A j \in 1..Len(results) :
                  /\ resultsFile.lines[j + 1].cells[1] = results[j].sample_id
                  /\ resultsFile.lines[j + 1].cells[2] = results[j].duration
                  /\ resultsFile.lines[j + 1].cells[3] = results[j].similarity_score)

\* C22 witness: the second run() on the runner has returned with more
\* records than the file, written after the first run, has rows.
C22_Witness ==
    /\ runNo = 2
    /\ pc = "returned"
    /\ resultsFile.exists
    /\ Len(resultsFile.lines) >= 2
    /\ Len(results) + 1 > Len(resultsFile.lines)

(***************************************************************************)
(* Specifications.                                                         *)
(***************************************************************************)
IdleRun ==
    /\ manifest = <<>> /\ files = {} /\ pc = "idle" /\ pos = 1 /\ results = <<>>
    /\ hasAsr = FALSE /\ locals = NoLocals /\ raisedLog = <<>>
    /\ resultsFile = NoFile /\ runNo = 0 /\ runStart = 0 /\ calls = <<>>

IdleEval ==
    /\ zeroShotFiles = {} /\ idx = 0 /\ responses = <<>> /\ evaluator_number = 1
    /\ samples = <<>> /\ csvFile = [e \in 1..MaxEvaluator |-> NoFile]
    /\ jsonFiles = <<>> /\ lastSave = <<>> /\ edgeClick = FALSE /\ steps = 0
    /\ randomize = FALSE /\ audioMissing = {}

IdleSetup ==
    /\ corpus = <<>> /\ num_speakers = 0 /\ selected_speakers = <<>>
    /\ setupPc = "idle" /\ spkPos = 1 /\ durPos = 1 /\ ref_paths = <<>>
    /\ experiment_manifest = <<>> /\ written = <<>>
    /\ reference_durations = <<>> /\ rngDraws = 0 /\ rngStream = <<>>
    /\ returned = <<>>

IdleDiscover ==
    /\ audioTree = <<>> /\ orderLog = <<>>
    /\ pairFiles = [speaker |-> "absent", global |-> "absent"]

\* the evaluation session alone: a session just loaded, nothing else running
InitEvalSpec ==
    /\ InitEval
    /\ IdleRun
    /\ IdleSetup
    /\ IdleDiscover

\* the evaluation session with audio files missing from the start
InitSessionSpec ==
    /\ InitSession
    /\ IdleRun
    /\ IdleSetup
    /\ IdleDiscover

\* the runner alone: run() called on a manifest
InitRunSpec ==
    /\ InitRun
    /\ IdleEval
    /\ IdleSetup
    /\ IdleDiscover

\* the setup alone: prepare_data called on a corpus
InitSetupSpec ==
    /\ InitSetup
    /\ IdleEval
    /\ IdleRun
    /\ IdleDiscover

\* the discovery and ordering of one script run, on a tree of audio files
InitDiscoverSpec ==
    /\ InitDiscover
    /\ IdleEval
    /\ IdleRun
    /\ IdleSetup

SpecEval == InitEvalSpec /\ [][NextEval]_vars
SpecSession == InitSessionSpec /\ [][NextSession]_vars

SpecRun == InitRunSpec /\ [][NextRun]_vars
SpecRuns == InitRunSpec /\ [][NextRuns]_vars

SpecSetup == InitSetupSpec /\ [][NextSetup]_vars

SpecMain == InitSetupSpec /\ [][NextMain]_vars

SpecDiscover == InitDiscoverSpec /\ [][NextDiscover]_vars

====
